---------------------------- MODULE Spec2Model ----------------------------
(***************************************************************************)
(* A model of the SafetyCheck backend (los7us/safecheck): the result       *)
(* cache, the result schema, the Gemini analysis loop and the              *)
(* analyze_content request handler with its rate and abuse control.        *)
(*                                                                         *)
(* Time is a natural number of model ticks.  Optional Python values are    *)
(* sequences of length at most one: <<>> is None, <<x>> is the value x.    *)
(* sha256 is taken to be injective on the inputs the model draws, so a     *)
(* digest is represented by the string that was hashed.                    *)
(***************************************************************************)
EXTENDS Integers, Sequences, FiniteSets, TLC

VARIABLES
    now,        \* datetime.utcnow(), in ticks
    cache,      \* MemoryCacheBackend.cache: key -> [value, expiry]
    lastOp,     \* the last call made on the ResultCache, with its answer
    prevOp,     \* the call before it
    built,      \* the outcome of the last construction of a result
    req,        \* the requests being handled by analyze_content
    requests,   \* APIKeyRateLimiter.requests: api key -> log of (ts, count)
    ip_requests,\* AbuseDetector.ip_requests: ip -> log of timestamps
    metrics,    \* MetricsTracker: the windowed counters and period keys
    _adapters,  \* AdapterRegistry._adapters: the adapters in dict order
    reg_log,    \* every adapter passed to register, in call order
    call,       \* the last call made on the registry or the pipeline
    cache_dir,  \* MediaCache.cache_dir: the paths of the files in it
    life,       \* the lifespan of the application and what it owns
    heap,       \* the result objects in memory, by object identity
    loop,       \* the event loop: the coroutines calling the result cache
    fn_log,     \* the calls made of functions called on their own
    ip_content_hashes   \* AbuseDetector.ip_content_hashes: ip -> set

pipeVars == <<_adapters, reg_log, call, cache_dir>>
restVars == <<life, heap, loop, fn_log, ip_content_hashes>>
extVars == <<pipeVars, restVars>>
vars == <<now, cache, lastOp, prevOp, built, req, requests, ip_requests,
          metrics, extVars>>
apiVars == <<req, requests, ip_requests, metrics>>

None == <<>>
Some(x) == <<x>>

----------------------------------------------------------------------------
(* Bounds of the model *)

\* the last tick of the clock
MaxTime == 2

\* one minute, one hour and one day, in ticks
MinuteTicks == 1
HourTicks == 2
DayTicks == 3

\* ResultCache.default_ttl: 3600 seconds
DefaultTtl == HourTicks

----------------------------------------------------------------------------
(* Result cache: src/backend/src/cache/result_cache.py *)

\* a mutant of generate_cache_key: the kind of the input is left out
generate_cache_key_unnamespaced(url, text) ==
    IF url # None /\ url[1] # ""
    THEN Some(<<"analysis", "", url[1]>>)
    ELSE IF text # None /\ text[1] # ""
         THEN Some(<<"analysis", "", text[1]>>)
         ELSE None

\* generate_cache_key: "url:"+url or "text:"+text under sha256, prefixed
\* "analysis:"; an empty or absent url falls through to text (truthiness)
generate_cache_key(url, text) ==
    IF url # None /\ url[1] # ""
    THEN Some(<<"analysis", "url", url[1]>>)
    ELSE IF text # None /\ text[1] # ""
         THEN Some(<<"analysis", "text", text[1]>>)
         ELSE None   \* ValueError

\* a mutant of MemoryCacheBackend_get: an expired entry is reported absent
\* but left in the store
MemoryCacheBackend_get_keep(c, key, t) ==
    IF key \in DOMAIN c
    THEN IF t < c[key].expiry
         THEN [ret |-> Some(c[key].value), cache |-> c]
         ELSE [ret |-> None, cache |-> c]
    ELSE [ret |-> None, cache |-> c]

\* a mutant of MemoryCacheBackend.get: the expiry comparison is inverted
MemoryCacheBackend_get_inverted(c, key, t) ==
    IF key \in DOMAIN c
    THEN IF t >= c[key].expiry
         THEN [ret |-> Some(c[key].value), cache |-> c]
         ELSE [ret |-> None,
               cache |-> [k \in DOMAIN c \ {key} |-> c[k]]]
    ELSE [ret |-> None, cache |-> c]

\* MemoryCacheBackend.get: the answer and the store after the call
MemoryCacheBackend_get(c, key, t) ==
    IF key \in DOMAIN c
    THEN IF t < c[key].expiry
         THEN [ret |-> Some(c[key].value), cache |-> c]
         ELSE [ret |-> None,
               cache |-> [k \in DOMAIN c \ {key} |-> c[k]]]
    ELSE [ret |-> None, cache |-> c]

\* MemoryCacheBackend.set: expiry = utcnow() + ttl_seconds, overwrite
MemoryCacheBackend_set(c, key, value, ttl_seconds, t) ==
    [k \in DOMAIN c \cup {key} |->
        IF k = key THEN [value |-> value, expiry |-> t + ttl_seconds]
                   ELSE c[k]]

\* MemoryCacheBackend.delete
MemoryCacheBackend_delete(c, key) ==
    [k \in DOMAIN c \ {key} |-> c[k]]

\* MemoryCacheBackend.clear
MemoryCacheBackend_clear(c) == [k \in {} |-> None]

\* ResultCache.get
ResultCache_get(c, key, t) == MemoryCacheBackend_get(c, key, t)

\* a set whose entry is never live: a ttl of no ticks
ResultCache_set_expired(c, key, result, ttl, t) ==
    MemoryCacheBackend_set(c, key, result, 0, t)

\* ResultCache.set: "ttl = ttl or self.default_ttl" (None and 0 are falsy)
ResultCache_set(c, key, result, ttl, t) ==
    LET eff == IF ttl = None \/ ttl[1] = 0 THEN DefaultTtl ELSE ttl[1]
    IN  MemoryCacheBackend_set(c, key, result, eff, t)

\* ResultCache.delete
ResultCache_delete(c, key) == MemoryCacheBackend_delete(c, key)

\* ResultCache.clear
ResultCache_clear(c) == MemoryCacheBackend_clear(c)

----------------------------------------------------------------------------
(* Result schema: src/backend/src/core/schemas.py.  A risk score is held   *)
(* in hundredths: 25 is 0.25.                                              *)

\* class RiskLevel
RiskLevel == {"Minimal", "Low", "Moderate", "High", "Critical"}

\* the fields of SafetyAnalysisResult in the order the class declares them,
\* which is the order pydantic validates them in
FieldOrder == <<"risk_score", "risk_level", "summary", "model_version">>

\* ValidationInfo.data while `field` is validated: the fields validated so
\* far, i.e. those declared before it
InfoData(field, kwargs) ==
    LET before == {FieldOrder[j] : j \in
                     {i \in 1..Len(FieldOrder) :
                        \E n \in 1..Len(FieldOrder) :
                           FieldOrder[n] = field /\ i < n}}
    IN  [f \in before |-> kwargs[f]]

\* the field validator of risk_score: TRUE when it returns v, FALSE when it
\* raises ValueError
risk_score_matches_level(v, data) ==
    IF "risk_level" \in DOMAIN data
    THEN LET level == data["risk_level"] IN
         IF level = "Minimal" /\ ~(0 <= v /\ v < 25) THEN FALSE
         ELSE IF level = "Low" /\ ~(25 <= v /\ v < 50) THEN FALSE
         ELSE IF level = "Moderate" /\ ~(50 <= v /\ v < 70) THEN FALSE
         ELSE IF level = "High" /\ ~(70 <= v /\ v < 90) THEN FALSE
         ELSE IF level = "Critical" /\ ~(90 <= v /\ v <= 100) THEN FALSE
         ELSE TRUE
    ELSE TRUE

NoResult == [risk_score |-> 0, risk_level |-> "", summary |-> "",
             model_version |-> ""]

\* SafetyAnalysisResult(**kwargs): Field(ge=0.0, le=1.0) and the validator
\* on risk_score, the enum on risk_level
SafetyAnalysisResult(kwargs) ==
    LET scoreOk ==
            /\ 0 <= kwargs.risk_score /\ kwargs.risk_score <= 100
            /\ risk_score_matches_level(kwargs.risk_score,
                                        InfoData("risk_score", kwargs))
        levelOk == kwargs.risk_level \in RiskLevel
    IN  IF scoreOk /\ levelOk
        THEN [ok |-> TRUE, err |-> "", result |-> kwargs]
        ELSE [ok |-> FALSE, err |-> "ValidationError", result |-> NoResult]

\* GeminiErrorHandler.create_fallback_result
create_fallback_result ==
    SafetyAnalysisResult([risk_score |-> 50, risk_level |-> "Moderate",
                          summary |-> "manual review",
                          model_version |-> "fallback"])

----------------------------------------------------------------------------
(* Parsing of the classifier's output:                                     *)
(* src/backend/src/services/gemini_service.py, _parse_response.  A raw     *)
(* response is garbage (not JSON), a JSON array, or a JSON object whose    *)
(* risk_score is absent, null or a number and whose risk_level is absent   *)
(* or a string.                                                            *)

ModelName == "gemini-2.5-flash"

\* str(risk_level_raw).strip().capitalize() on the strings the model draws
Capitalize(str) ==
    CASE str \in {"high", "HIGH", "High"} -> "High"
      [] str \in {"low", " low "} -> "Low"
      [] str = "medium" -> "Medium"
      [] str = "Moderate" -> "Moderate"
      [] str = "minimal" -> "Minimal"
      [] str = "critical" -> "Critical"
      [] OTHER -> "Severe"

\* level_map.get(risk_level_str, "Moderate")
level_map(str) ==
    CASE str = "Low" -> "Low"
      [] str = "Medium" -> "Moderate"
      [] str = "Moderate" -> "Moderate"
      [] str = "High" -> "High"
      [] str = "Minimal" -> "Minimal"
      [] str = "Critical" -> "Critical"
      [] OTHER -> "Moderate"

Min(a, b) == IF a < b THEN a ELSE b
Max(a, b) == IF a > b THEN a ELSE b

\* _parse_response: json.loads, the defaults, max(0.0, min(1.0, float(..)))
\* and the construction of the result.  err names the exception raised.
_parse_response(raw) ==
    IF raw.kind = "garbage"
    THEN [ok |-> FALSE, err |-> "JSONDecodeError", result |-> NoResult]
    ELSE IF raw.kind = "array"
    THEN [ok |-> FALSE, err |-> "AttributeError", result |-> NoResult]
    ELSE IF raw.risk_score.tag = "null"
    THEN [ok |-> FALSE, err |-> "TypeError", result |-> NoResult]
    ELSE
        LET score == IF raw.risk_score.tag = "absent" THEN 50
                     ELSE Max(0, Min(100, raw.risk_score.val))
            level == IF raw.risk_level = None THEN "Moderate"
                     ELSE level_map(Capitalize(raw.risk_level[1]))
        IN  SafetyAnalysisResult([risk_score |-> score,
                                  risk_level |-> level,
                                  summary |-> "analysis",
                                  model_version |-> ModelName])

----------------------------------------------------------------------------
(* Rate and abuse control.  Windows are in ticks; the limits are the       *)
(* constructor arguments, scaled down.                                     *)

\* AbuseDetector: requests per minute and origin (60)
AbuseLimit == 2
\* APIKeyRateLimiter(requests_per_hour, requests_per_day)
RequestsPerHour == 1
RequestsPerDay == 2
\* MetricsTracker(hourly_request_limit, daily_request_limit, daily_token_limit)
HourlyRequestLimit == 1
DailyRequestLimit == 2
DailyTokenLimit == 2

RECURSIVE SumCounts(_)
SumCounts(log) ==
    IF log = <<>> THEN 0 ELSE Head(log).count + SumCounts(Tail(log))

\* now.replace(minute=0, ...) and now.replace(hour=0, ...)
HourOf(t) == (t \div HourTicks) * HourTicks
DayOf(t) == (t \div DayTicks) * DayTicks

\* check_rate_limit counting by clock hour and clock day, not by the
\* hour and the day that end at the call
APIKeyRateLimiter_check_bucketed(self, log, t) ==
    LET cleaned == SelectSeq(log, LAMBDA e : DayOf(e.ts) = DayOf(t))
        hourly == SumCounts(SelectSeq(cleaned,
                                      LAMBDA e : HourOf(e.ts) = HourOf(t)))
        daily == SumCounts(cleaned)
    IN  IF hourly >= self.requests_per_hour \/ daily >= self.requests_per_day
        THEN [allowed |-> FALSE, reason |-> "limit exceeded",
              log |-> cleaned]
        ELSE [allowed |-> TRUE, reason |-> "OK",
              log |-> Append(cleaned, [ts |-> t, count |-> 1])]

\* APIKeyRateLimiter.check_rate_limit for one key of the limiter self, a
\* record of its requests_per_hour and requests_per_day: the answer and
\* the key's log after the call
APIKeyRateLimiter_check(self, log, t) ==
    LET cleaned == SelectSeq(log, LAMBDA e : e.ts > t - DayTicks)
        hourly == SumCounts(SelectSeq(cleaned,
                                      LAMBDA e : e.ts > t - HourTicks))
        daily == SumCounts(cleaned)
    IN  IF hourly >= self.requests_per_hour
        THEN [allowed |-> FALSE, reason |-> "Hourly limit exceeded",
              log |-> cleaned]
        ELSE IF daily >= self.requests_per_day
        THEN [allowed |-> FALSE, reason |-> "Daily limit exceeded",
              log |-> cleaned]
        ELSE [allowed |-> TRUE, reason |-> "OK",
              log |-> Append(cleaned, [ts |-> t, count |-> 1])]

\* rate_limiter = APIKeyRateLimiter(), the limiter of analyze_content
APIKeyRateLimiter_check_rate_limit(log, t) ==
    APIKeyRateLimiter_check([requests_per_hour |-> RequestsPerHour,
                             requests_per_day |-> RequestsPerDay], log, t)

\* AbuseDetector: distinct contents per origin (50)
ContentLimit == 1

\* a mutant of AbuseDetector_check_abuse: a request over the ceiling is
\* logged too
AbuseDetector_check_abuse_logging(log, hashes, t, content) ==
    LET cleaned == SelectSeq(log, LAMBDA ts : ts > t - MinuteTicks)
    IN  IF Len(cleaned) >= AbuseLimit
        THEN [abuse |-> TRUE, reason |-> "rate", log |-> Append(cleaned, t),
              hashes |-> hashes]
        ELSE [abuse |-> FALSE, reason |-> "ok", log |-> Append(cleaned, t),
              hashes |-> hashes]

\* AbuseDetector.check_abuse(ip, content) for one origin, with the
\* origin's request log and its set of content hashes (md5 is injective
\* on the contents of the model): the answer, which check gave it, and
\* the log and the set after the call
AbuseDetector_check_abuse(log, hashes, t, content) ==
    LET cleaned == SelectSeq(log, LAMBDA ts : ts > t - MinuteTicks)
        recorded == Append(cleaned, t)
    IN  IF Len(cleaned) >= AbuseLimit
        THEN [abuse |-> TRUE, reason |-> "rate", log |-> cleaned,
              hashes |-> hashes]
        ELSE IF content = "" \/ content \in hashes
        THEN [abuse |-> FALSE, reason |-> "ok", log |-> recorded,
              hashes |-> hashes]
        ELSE IF Cardinality(hashes \cup {content}) > ContentLimit
        THEN [abuse |-> TRUE, reason |-> "content", log |-> recorded,
              hashes |-> hashes \cup {content}]
        ELSE [abuse |-> FALSE, reason |-> "ok", log |-> recorded,
              hashes |-> hashes \cup {content}]

\* AbuseDetector.check_abuse(ip, "") as the middleware calls it: the
\* content is empty, so the content-hash branch is not entered
check_abuse(log, t) ==
    LET cleaned == SelectSeq(log, LAMBDA ts : ts > t - MinuteTicks)
    IN  IF Len(cleaned) >= AbuseLimit
        THEN [abuse |-> TRUE, log |-> cleaned]
        ELSE [abuse |-> FALSE, log |-> Append(cleaned, t)]

\* a defaultdict(int): reading a missing key gives 0
Count(d, k) == IF k \in DOMAIN d THEN d[k] ELSE 0
Put(d, k, v) == [x \in DOMAIN d \cup {k} |-> IF x = k THEN v ELSE d[x]]
Keep(d, cutoff) == [x \in {k \in DOMAIN d : k >= cutoff} |-> d[x]]

\* MetricsTracker._update_time_windows
_update_time_windows(m, t) ==
    LET new_hour == HourOf(t)
        new_day == DayOf(t)
        m1 == IF new_hour > m.current_hour
              THEN [m EXCEPT !.current_hour = new_hour,
                            !.hourly_requests =
                                Keep(m.hourly_requests, new_hour - DayTicks)]
              ELSE m
    IN  IF new_day > m1.current_day
        THEN [m1 EXCEPT !.current_day = new_day,
                        !.daily_requests =
                            Keep(m1.daily_requests, new_day - 30 * DayTicks),
                        !.daily_tokens =
                            Keep(m1.daily_tokens, new_day - 30 * DayTicks)]
        ELSE m1

\* MetricsTracker.record_request
record_request(m, t, tokens) ==
    LET u == _update_time_windows(m, t)
    IN  [u EXCEPT
           !.total_requests = @ + 1,
           !.total_tokens = @ + tokens,
           !.hourly_requests = Put(u.hourly_requests, u.current_hour,
                                   Count(u.hourly_requests, u.current_hour) + 1),
           !.daily_requests = Put(u.daily_requests, u.current_day,
                                  Count(u.daily_requests, u.current_day) + 1),
           !.daily_tokens = Put(u.daily_tokens, u.current_day,
                                Count(u.daily_tokens, u.current_day) + tokens)]

\* MetricsTracker.record_cache_hit
record_cache_hit(m) == [m EXCEPT !.total_cache_hits = @ + 1]

\* MetricsTracker.record_cache_miss
record_cache_miss(m) == [m EXCEPT !.total_cache_misses = @ + 1]

\* check_rate_limit with > where the code has >= on the hourly count
MetricsTracker_check_rate_limit_lenient(m, t) ==
    LET u == _update_time_windows(m, t)
    IN  [ok |-> /\ ~(Count(u.hourly_requests, u.current_hour)
                        > HourlyRequestLimit)
                /\ ~(Count(u.daily_requests, u.current_day)
                        >= DailyRequestLimit)
                /\ ~(Count(u.daily_tokens, u.current_day)
                        >= DailyTokenLimit),
         metrics |-> u]

\* MetricsTracker.check_rate_limit: the answer, and the tracker after the
\* call (the period keys move and the defaultdicts gain the keys read)
MetricsTracker_check_rate_limit(m, t) ==
    LET u == _update_time_windows(m, t)
        h == [u EXCEPT !.hourly_requests =
                 Put(u.hourly_requests, u.current_hour,
                     Count(u.hourly_requests, u.current_hour))]
        d == [h EXCEPT !.daily_requests =
                 Put(h.daily_requests, h.current_day,
                     Count(h.daily_requests, h.current_day))]
        k == [d EXCEPT !.daily_tokens =
                 Put(d.daily_tokens, d.current_day,
                     Count(d.daily_tokens, d.current_day))]
    IN  IF Count(u.hourly_requests, u.current_hour) >= HourlyRequestLimit
        THEN [ok |-> FALSE, metrics |-> h]
        ELSE IF Count(u.daily_requests, u.current_day) >= DailyRequestLimit
        THEN [ok |-> FALSE, metrics |-> d]
        ELSE IF Count(u.daily_tokens, u.current_day) >= DailyTokenLimit
        THEN [ok |-> FALSE, metrics |-> k]
        ELSE [ok |-> TRUE, metrics |-> k]

----------------------------------------------------------------------------
(* Adapters and ingestion.                                                 *)

RedditUrl == "https://reddit.com/r/a/comments/1"
OtherUrl == "https://example.org/p"

\* an adapter instance: its platform_name, which object it is, and the
\* URLs of the model that its url_pattern matches
Adapter(platform, inst, urls) ==
    [platform_name |-> platform, inst |-> inst, urls |-> urls]

\* the two adapters lifespan builds
RedditAdapter == Adapter("reddit", "reddit_adapter", {RedditUrl})
TwitterAdapter == Adapter("twitter", "twitter_adapter", {})

\* PlatformAdapter.can_handle: the adapter's url_pattern matches
can_handle(adapter, url) == url \in adapter.urls

\* a mutant of register: a platform registered again moves to the end
register_move(adapters, adapter) ==
    Append(SelectSeq(adapters,
                     LAMBDA a : a.platform_name # adapter.platform_name),
           adapter)

\* AdapterRegistry.register: self._adapters[platform] = adapter.  The dict
\* is held as the sequence of its values in key order; assigning to a key
\* it has replaces the value where it stands, a new key goes last.
register(adapters, adapter) ==
    IF \E i \in 1..Len(adapters) :
          adapters[i].platform_name = adapter.platform_name
    THEN [i \in 1..Len(adapters) |->
            IF adapters[i].platform_name = adapter.platform_name
            THEN adapter ELSE adapters[i]]
    ELSE Append(adapters, adapter)

\* adapter_registry._adapters after lifespan: reddit, then twitter
Registered == register(register(<<>>, RedditAdapter), TwitterAdapter)

\* a mutant of get_adapter_for_url: the last adapter that claims it
get_adapter_for_url_last(adapters, url) ==
    LET hits == {i \in 1..Len(adapters) : can_handle(adapters[i], url)}
    IN  IF hits = {} THEN None
        ELSE Some(adapters[CHOOSE i \in hits : \A j \in hits : i >= j])

\* AdapterRegistry.get_adapter_for_url: the first adapter that claims it
get_adapter_for_url(adapters, url) ==
    LET hits == {i \in 1..Len(adapters) : can_handle(adapters[i], url)}
    IN  IF hits = {} THEN None
        ELSE Some(adapters[CHOOSE i \in hits : \A j \in hits : i <= j])

\* AdapterRegistry.get_adapter: self._adapters.get(platform)
get_adapter(adapters, platform) ==
    LET hits == {i \in 1..Len(adapters) :
                   adapters[i].platform_name = platform}
    IN  IF hits = {} THEN None ELSE Some(adapters[CHOOSE i \in hits : TRUE])

\* AdapterRegistry.list_platforms: list(self._adapters.keys())
list_platforms(adapters) ==
    [i \in 1..Len(adapters) |-> adapters[i].platform_name]

----------------------------------------------------------------------------
(* Media cache and media processor: src/backend/src/utils/media_cache.py   *)
(* and src/backend/src/services/media_processor.py.  A downloaded content  *)
(* is named by a string; sha256 is injective on the contents of the model, *)
(* so a content hash is the content's name.  The cache directory is the    *)
(* set of the paths of its files; a path is <<content hash, extension>>    *)
(* (the shard directory is a function of the hash).                        *)

\* MediaCache.max_size_bytes, scaled down
MaxSizeBytes == 2

\* len(response.content) of the contents of the model
ContentLen(content) == IF content = "big" THEN MaxSizeBytes + 1 ELSE 1

\* MediaCache._get_extension on the media URLs of the model: the suffix
\* of the path without its query, lower-cased, or .bin
_get_extension(url) ==
    CASE url = "https://i.example/a.jpg" -> ".jpg"
      [] url = "https://j.example/b.JPG?x=1" -> ".jpg"
      [] url = "https://k.example/c.png" -> ".png"
      [] OTHER -> ".bin"

\* a mutant of get_cache_path: the path is the content hash alone
get_cache_path_by_hash(content_hash, url) == <<content_hash, "">>

\* MediaCache.get_cache_path
get_cache_path(content_hash, url) == <<content_hash, _get_extension(url)>>

\* MediaCache.download_and_cache(url) when the server answers resp:
\* what is raised or returned, and the cache directory after the call
download_and_cache(fs, url, resp) ==
    IF resp.kind = "http_error" \/ resp.kind = "request_error"
    THEN [ok |-> FALSE, err |-> "MediaCacheException", path |-> None,
          wrote |-> FALSE, files |-> fs]
    ELSE IF ContentLen(resp.content) > MaxSizeBytes
    THEN [ok |-> FALSE, err |-> "MediaCacheException", path |-> None,
          wrote |-> FALSE, files |-> fs]
    ELSE LET content_hash == resp.content
             cache_path == get_cache_path(content_hash, url)
         IN  IF cache_path \in fs
             THEN [ok |-> TRUE, err |-> "", path |-> Some(cache_path),
                   wrote |-> FALSE, files |-> fs]
             ELSE [ok |-> TRUE, err |-> "", path |-> Some(cache_path),
                   wrote |-> TRUE, files |-> fs \cup {cache_path}]

\* MediaProcessor.process_media: any failure of the download, of the
\* image metadata or of the feature extraction is raised as
\* MediaProcessorException
process_media(fs, media_url, media_type, resp, feat_ok) ==
    LET d == download_and_cache(fs, media_url, resp)
    IN  IF ~d.ok
        THEN [ok |-> FALSE, err |-> "MediaProcessorException",
              features |-> None, files |-> d.files]
        ELSE IF media_type = "image" /\ ~feat_ok
        THEN [ok |-> FALSE, err |-> "MediaProcessorException",
              features |-> None, files |-> d.files]
        ELSE [ok |-> TRUE, err |-> "",
              features |-> IF media_type = "image"
                           THEN Some([hash |-> resp.content]) ELSE None,
              files |-> d.files]

\* a mutant of process_media_list: a failure of process_media is raised
process_media_list_raising(fs, media_items, resp, feat_ok) ==
    LET images == {i \in 1..Len(media_items) :
                     media_items[i].media_type = "image"}
    IN  IF images = {}
        THEN [ok |-> TRUE, ran |-> FALSE, features |-> None, files |-> fs]
        ELSE LET first_image ==
                     media_items[CHOOSE i \in images :
                                    \A j \in images : i <= j]
                 m == process_media(fs, first_image.url,
                                    first_image.media_type, resp, feat_ok)
             IN  [ok |-> m.ok, ran |-> TRUE, features |-> m.features,
                  files |-> m.files]

\* MediaProcessor.process_media_list: the features of the first image, or
\* None when there is no image or its processing fails
process_media_list(fs, media_items, resp, feat_ok) ==
    LET images == {i \in 1..Len(media_items) :
                     media_items[i].media_type = "image"}
    IN  IF images = {}
        THEN [ok |-> TRUE, ran |-> FALSE, features |-> None, files |-> fs]
        ELSE LET first_image ==
                     media_items[CHOOSE i \in images :
                                    \A j \in images : i <= j]
                 m == process_media(fs, first_image.url,
                                    first_image.media_type, resp, feat_ok)
             IN  [ok |-> TRUE, ran |-> TRUE,
                  features |-> IF m.ok THEN m.features ELSE None,
                  files |-> m.files]

----------------------------------------------------------------------------
(* Ingestion pipeline: src/backend/src/services/ingestion_pipeline.py.     *)
(* md5 is injective on the texts of the model: the first twelve digits of  *)
(* a digest are represented by the text that was hashed.                   *)

\* RedditAdapter.extract_from_text and TwitterAdapter.extract_from_text:
\* f"{platform}_paste_{md5(raw_text)[:12]}", the text verbatim, no media
extract_from_text(adapter, raw_text) ==
    [post_id |-> <<adapter.platform_name, "_paste_", <<"md5", raw_text>>>>,
     post_text |-> raw_text,
     platform_name |-> adapter.platform_name,
     media_items |-> <<>>,
     media_features |-> None]

\* TelegramAdapter.extract_from_text: building the CanonicalPost evaluates
\* PlatformName.TELEGRAM, which the PlatformName enum does not have
TelegramAdapter_extract_from_text(raw_text) ==
    [ok |-> FALSE, err |-> "AttributeError", post |-> None]

NoOutcome ==
    [ok |-> FALSE, err |-> "", adapter |-> None, extracted_by |-> None,
     pasted_by |-> None, enrich_ran |-> FALSE, produced |-> None,
     post |-> None]

\* a mutant of ingest_from_url: with no adapter for the URL the first
\* registered adapter is tried, and an extraction error gives no post
\* instead of an exception
ingest_from_url_lenient(adapters, fs, url, extracted, resp, feat_ok) ==
    LET found == get_adapter_for_url(adapters, url)
        adapter == IF found = None /\ Len(adapters) > 0
                   THEN Some(adapters[1]) ELSE found
    IN  [out |-> [NoOutcome EXCEPT !.ok = TRUE, !.adapter = adapter,
                                   !.extracted_by = adapter],
         files |-> fs]

\* IngestionPipeline.ingest_from_url, given what adapter.extract(url) does
\* (extracted), what the media server answers (resp) and whether feature
\* extraction succeeds (feat_ok): the outcome and the cache directory
ingest_from_url(adapters, fs, url, extracted, resp, feat_ok) ==
    LET adapter == get_adapter_for_url(adapters, url)
    IN  IF adapter = None
        THEN [out |-> [NoOutcome EXCEPT !.err = "ValueError: No adapter found"],
              files |-> fs]
        ELSE IF extracted.kind = "raise"
        THEN [out |-> [NoOutcome EXCEPT !.err = extracted.err,
                                        !.adapter = adapter,
                                        !.extracted_by = adapter],
              files |-> fs]
        ELSE
          LET post == [post_id |-> <<adapter[1].platform_name, "_", url>>,
                       post_text |-> "B",
                       platform_name |-> adapter[1].platform_name,
                       media_items |-> extracted.media_items,
                       media_features |-> None]
              m == process_media_list(fs, post.media_items, resp, feat_ok)
              base == [NoOutcome EXCEPT !.ok = TRUE, !.adapter = adapter,
                                        !.extracted_by = adapter,
                                        !.produced = Some(post)]
          IN  IF Len(post.media_items) > 0
              THEN IF m.ok
                   THEN [out |-> [base EXCEPT
                                    !.enrich_ran = TRUE,
                                    !.post = Some([post EXCEPT
                                       !.media_features = m.features])],
                         files |-> m.files]
                   ELSE [out |-> [NoOutcome EXCEPT
                                    !.err = "MediaProcessorException",
                                    !.adapter = adapter,
                                    !.extracted_by = adapter,
                                    !.enrich_ran = TRUE,
                                    !.produced = Some(post)],
                         files |-> m.files]
              ELSE [out |-> [base EXCEPT !.post = Some(post)], files |-> fs]

\* a mutant of ingest_from_text: the hint is ignored
ingest_from_text_no_hint(adapters, raw_text, platform_hint) ==
    IF Len(adapters) = 0
    THEN [NoOutcome EXCEPT !.err = "ValueError: No adapters registered"]
    ELSE [NoOutcome EXCEPT
            !.ok = TRUE, !.adapter = Some(adapters[1]),
            !.pasted_by = Some(adapters[1]),
            !.post = Some(extract_from_text(adapters[1], raw_text))]

\* IngestionPipeline.ingest_from_text
ingest_from_text(adapters, raw_text, platform_hint) ==
    LET hinted == IF platform_hint # None /\ platform_hint[1] # ""
                  THEN get_adapter(adapters, platform_hint[1])
                  ELSE None
        platforms == list_platforms(adapters)
        adapter == IF hinted # None THEN hinted
                   ELSE IF Len(platforms) > 0
                        THEN get_adapter(adapters, platforms[1])
                        ELSE None
    IN  IF adapter = None
        THEN [NoOutcome EXCEPT !.err = "ValueError: No adapters registered"]
        ELSE [NoOutcome EXCEPT
                !.ok = TRUE, !.adapter = adapter, !.pasted_by = adapter,
                !.post = Some(extract_from_text(adapter[1], raw_text))]

\* len(post.post_text) of the posts of the model
TextLen(txt) == IF txt = "A" THEN 4 ELSE 9

----------------------------------------------------------------------------
(* The state of the request handler when no request has been made.         *)

\* the concurrent requests the model follows
NumRequests == 2
Slots == 1..NumRequests

\* the network origins and the API keys of the callers
Ips == {"10.0.0.1"}
ApiKeys == {"demo-key-12345"}

NoResp == [status |-> 0, cached |-> FALSE, error |-> <<>>, data |-> NoResult]
NoExc == [type |-> "", cause |-> "", msg |-> ""]

\* a request slot that holds no request.  The fields from trace on are
\* bookkeeping about what the request has done so far.
IdleReq ==
    [pc |-> "idle", ip |-> "", api_key |-> "", url |-> None, text |-> None,
     cache_key |-> None, post |-> None, attempt |-> 0, result |-> NoResult,
     resp |-> NoResp,
     trace |-> <<>>,      \* the steps taken, in order
     calls |-> 0,         \* calls of _call_gemini
     analyzed |-> 0,      \* calls of gemini_service.analyze
     analyze_hour |-> 0,  \* the clock hour in which analyze was called
     malformed |-> 0,     \* responses that failed to parse
     transients |-> 0,    \* transient errors raised by _call_gemini
     permanents |-> 0,    \* non-transient errors raised by _call_gemini
     logged |-> FALSE,    \* the request is in its key's request log
     recorded |-> FALSE,  \* record_request was called for it
     wrote |-> FALSE,     \* it called result_cache.set
     wrote_at |-> 0,      \* the tick at which it did
     cleared |-> FALSE,   \* the cache was cleared after it did
     fresh |-> FALSE,     \* at its lookup, a request had stored its key
                          \* less than the default TTL before and the
                          \* cache had not been cleared since
     evicted |-> FALSE,   \* its cache lookup removed an entry
     saw |-> None,        \* the entry under its key when it looked up
     exc |-> NoExc]       \* the exception that ended it

\* MetricsTracker.__init__ at tick 0.  total_latency, a sum of wall-clock
\* durations that nothing reads back, is left out.
InitMetrics ==
    [total_requests |-> 0,
     total_cache_hits |-> 0,
     total_cache_misses |-> 0,
     total_tokens |-> 0,
     hourly_requests |-> [k \in {} |-> 0],
     daily_requests |-> [k \in {} |-> 0],
     daily_tokens |-> [k \in {} |-> 0],
     current_hour |-> 0,
     current_day |-> 0]

\* no call made yet on the registry or the pipeline
NoGiven == [extracted |-> [kind |-> "", err |-> "", media_items |-> <<>>],
            resp |-> [kind |-> "", content |-> ""], feat_ok |-> TRUE]
NoCall == [op |-> "none", url |-> "", text |-> "", hint |-> None,
           registered |-> None, given |-> NoGiven, wrote |-> FALSE,
           out |-> NoOutcome]

\* the registry and the media cache once lifespan has started the
\* application
PipeIdle ==
    /\ _adapters = Registered
    /\ reg_log = <<RedditAdapter, TwitterAdapter>>
    /\ call = NoCall
    /\ cache_dir = {}

\* lifespan has started the application and is at its yield
LifeServing ==
    [pc |-> "serving", pipeline |-> TRUE, http_client |-> "open",
     gemini_service |-> TRUE, backend |-> "memory", result_cache |-> "open",
     error |-> ""]

\* no result object is shared with the cache, no coroutine is in a call
\* of the cache, and no key or paste function has been called
NoHeap == [objs |-> <<>>, stored |-> [k \in {} |-> None], got |-> None]
NoLoop == [tasks |-> <<>>, running |-> None, last_set |-> None]
RestIdle ==
    /\ life = LifeServing
    /\ heap = NoHeap
    /\ loop = NoLoop
    /\ fn_log = <<>>
    /\ ip_content_hashes = [i \in {} |-> {}]

\* the state outside the request handler and the result cache
ExtIdle == PipeIdle /\ RestIdle

ApiIdle ==
    /\ req = [s \in Slots |-> IdleReq]
    /\ requests = [k \in ApiKeys |-> <<>>]
    /\ ip_requests = [i \in Ips |-> <<>>]
    /\ metrics = InitMetrics

----------------------------------------------------------------------------
(* POST /api/analyze: src/backend/src/main.py, analyze_content, behind the *)
(* middleware stack.  A request moves through the stages below; every      *)
(* await is a point where another request may run.                         *)

MaxRetries == 2

ApiInputs ==
    { [url |-> Some(RedditUrl), text |-> None],
      [url |-> Some(OtherUrl), text |-> None],
      [url |-> None, text |-> Some("A")],
      [url |-> Some(RedditUrl), text |-> Some("A")],
      [url |-> None, text |-> None] }

\* str(e) of an internal exception
ExcTexts == {"detail-1", "detail-2"}

\* what the classifier answers in the request model
GoodRaw == [kind |-> "object", risk_score |-> [tag |-> "num", val |-> 75],
            risk_level |-> Some("high")]
GarbageRaw == [kind |-> "garbage", risk_score |-> [tag |-> "absent", val |-> 0],
               risk_level |-> None]
ArrayRaw == [kind |-> "array", risk_score |-> [tag |-> "absent", val |-> 0],
             risk_level |-> None]
ApiRaw == {GoodRaw, GarbageRaw, ArrayRaw}

\* a mutant of StageAfter: the result is cached before the classifier runs
StageAfter_write_first(stage, has_image) ==
    CASE stage = "abuse" -> "endpoint"
      [] stage = "endpoint" -> "lookup"
      [] stage = "lookup" -> "ingest"
      [] stage = "ingest" -> IF has_image THEN "enrich" ELSE "cache_write"
      [] stage = "enrich" -> "cache_write"
      [] stage = "cache_write" -> "classify"
      [] stage = "classify" -> "record"
      [] OTHER -> "done"

\* the order of the statements of the request path: the stage that follows
\* `stage` when it goes through
StageAfter(stage, has_image) ==
    CASE stage = "abuse" -> "endpoint"
      [] stage = "endpoint" -> "lookup"
      [] stage = "lookup" -> "ingest"
      [] stage = "ingest" -> IF has_image THEN "enrich" ELSE "classify"
      [] stage = "enrich" -> "classify"
      [] stage = "classify" -> "cache_write"
      [] stage = "cache_write" -> "record"
      [] OTHER -> "done"

ApiFrame == UNCHANGED <<lastOp, prevOp, built, extVars>>

Did(r, step) == [r EXCEPT !.trace = Append(@, step)]

\* the request ends with an HTTP response
Respond(r, status, cached, error, data) ==
    [r EXCEPT !.pc = "done",
              !.resp = [status |-> status, cached |-> cached,
                        error |-> error, data |-> data]]

\* "except Exception as e: raise HTTPException(500, f'Analysis failed: {e}')"
Fail500(r, type, cause, msg) ==
    Respond([r EXCEPT !.exc = [type |-> type, cause |-> cause, msg |-> msg]],
            500, FALSE, <<"Analysis failed: ", msg>>, NoResult)

\* a request arrives and passes through AbusePreventionMiddleware.dispatch.
\* Slots are taken in order: which free slot a request takes is immaterial.
Arrive(s, ip, key, inp) ==
    LET r == [IdleReq EXCEPT !.ip = ip, !.api_key = key,
                             !.url = inp.url, !.text = inp.text]
        a == check_abuse(ip_requests[ip], now)
        d == Did(r, "abuse_check")
    IN  /\ req[s].pc = "idle"
        /\ \A q \in Slots : q < s => req[q].pc # "idle"
        /\ ip_requests' = [ip_requests EXCEPT ![ip] = a.log]
        /\ req' = [req EXCEPT ![s] =
                     IF a.abuse
                     THEN Respond(d, 429, FALSE,
                                  <<"Too many requests or abuse detected">>,
                                  NoResult)
                     ELSE [d EXCEPT !.pc = StageAfter("abuse", FALSE)]]
        /\ UNCHANGED <<now, cache, requests, metrics>>
        /\ ApiFrame

\* analyze_content up to the cache lookup: the per-key rate limit, the
\* check that url or text is given, and the cache key
Endpoint(s) ==
    LET r == req[s]
        c == APIKeyRateLimiter_check_rate_limit(requests[r.api_key], now)
        d == [Did(r, "key_quota_check") EXCEPT !.logged = c.allowed]
        key == generate_cache_key(r.url, r.text)
    IN  /\ r.pc = "endpoint"
        /\ requests' = [requests EXCEPT ![r.api_key] = c.log]
        /\ req' = [req EXCEPT ![s] =
                     IF ~c.allowed
                     THEN Respond(d, 429, FALSE,
                                  <<"Rate limit exceeded: ", c.reason>>,
                                  NoResult)
                     ELSE IF key = None
                     THEN Respond(d, 400, FALSE,
                                  <<"Either 'url' or 'text' required">>,
                                  NoResult)
                     ELSE [d EXCEPT !.pc = StageAfter("endpoint", FALSE),
                                    !.cache_key = key]]
        /\ UNCHANGED <<now, cache, ip_requests, metrics>>
        /\ ApiFrame

\* the cache lookup; on a hit the cached result is returned, on a miss the
\* global limits of the MetricsTracker are checked
CacheLookup(s) ==
    LET r == req[s]
        k == r.cache_key[1]
        g == ResultCache_get(cache, k, now)
        seen == IF k \in DOMAIN cache
                THEN Some([live |-> now < cache[k].expiry,
                           value |-> cache[k].value])
                ELSE None
        stored == \E a \in Slots \ {s} :
                      /\ req[a].wrote /\ ~req[a].cleared
                      /\ req[a].cache_key = r.cache_key
                      /\ now < req[a].wrote_at + DefaultTtl
        d == [Did(r, "cache_lookup") EXCEPT !.saw = seen,
                                            !.evicted = (g.cache # cache),
                                            !.fresh = stored]
        m == MetricsTracker_check_rate_limit(record_cache_miss(metrics), now)
    IN  /\ r.pc = "lookup"
        /\ cache' = g.cache
        /\ IF g.ret # None
           THEN /\ req' = [req EXCEPT ![s] =
                             Respond(d, 200, TRUE, <<>>, g.ret[1])]
                /\ metrics' = record_cache_hit(metrics)
           ELSE /\ metrics' = m.metrics
                /\ req' = [req EXCEPT ![s] =
                             IF ~m.ok
                             THEN Respond(Did(d, "global_quota_check"), 429,
                                          FALSE, <<"Rate limit exceeded">>,
                                          NoResult)
                             ELSE [Did(d, "global_quota_check") EXCEPT
                                     !.pc = StageAfter("lookup", FALSE)]]
        /\ UNCHANGED <<now, requests, ip_requests>>
        /\ ApiFrame

\* pipeline.ingest_from_url up to the end of adapter.extract: no adapter,
\* an extraction error, or a post with or without an image
IngestUrl(s) ==
    LET r == req[s]
        d == Did(r, "extract")
        adapter == get_adapter_for_url(_adapters, r.url[1])
    IN  /\ r.pc = "ingest"
        /\ r.url # None
        /\ IF adapter = None
           THEN req' = [req EXCEPT ![s] =
                          Fail500(r, "ValueError", "no_adapter",
                                  "No adapter found for URL")]
           ELSE \/ \E img \in BOOLEAN :
                     req' = [req EXCEPT ![s] =
                               [d EXCEPT
                                  !.pc = StageAfter("ingest", img),
                                  !.post = Some([post_text |-> "B",
                                                 has_image |-> img,
                                                 media_features |-> FALSE])]]
                \/ \E ty \in {"ContentExtractionError", "RateLimitError"} :
                     req' = [req EXCEPT ![s] = Fail500(d, ty, "extract", ty)]
        /\ UNCHANGED <<now, cache, requests, ip_requests, metrics>>
        /\ ApiFrame

\* pipeline.ingest_from_text: the paste mode of the first adapter
IngestText(s) ==
    LET r == req[s]
        d == Did(r, "extract")
    IN  /\ r.pc = "ingest"
        /\ r.url = None
        /\ req' = [req EXCEPT ![s] =
                     [d EXCEPT !.pc = StageAfter("ingest", FALSE),
                               !.post = Some([post_text |-> r.text[1],
                                              has_image |-> FALSE,
                                              media_features |-> FALSE])]]
        /\ UNCHANGED <<now, cache, requests, ip_requests, metrics>>
        /\ ApiFrame

\* media_processor.process_media_list: features, or None on any failure
Enrich(s) ==
    LET r == req[s]
    IN  /\ r.pc = "enrich"
        /\ \E got \in BOOLEAN :
             req' = [req EXCEPT ![s] =
                       [Did(r, "enrich") EXCEPT
                          !.pc = StageAfter("enrich", TRUE),
                          !.post = Some([r.post[1] EXCEPT
                                           !.media_features = got])]]
        /\ UNCHANGED <<now, cache, requests, ip_requests, metrics>>
        /\ ApiFrame

----------------------------------------------------------------------------
(* The result cache on its own: calls of set, get, delete and clear, and   *)
(* the passing of time.                                                    *)

\* the inputs the cache is exercised with
CacheInputs == {"A", "B"}
CacheKeys == {generate_cache_key(Some(u), None)[1] : u \in CacheInputs}
SampleResults ==
    { [risk_score |-> 75, risk_level |-> "High",
       summary |-> "analysis", model_version |-> "gemini-2.5-flash"],
      [risk_score |-> 10, risk_level |-> "Minimal",
       summary |-> "analysis", model_version |-> "gemini-2.5-flash"] }
TtlArgs == {None, Some(0), Some(1)}

NoOp == [op |-> "none", key |-> None, ttl |-> None, ret |-> None,
         pre |-> [k \in {} |-> None], t |-> 0]
\* what is remembered of the call before the last
Brief(o) == [op |-> o.op, key |-> o.key, ttl |-> o.ttl, t |-> o.t]

NoBuilt == [via |-> "none", ok |-> FALSE, err |-> "", result |-> NoResult,
            score |-> 0, level |-> ""]

InitCache ==
    /\ now = 0
    /\ cache = [k \in {} |-> None]
    /\ lastOp = NoOp
    /\ prevOp = Brief(NoOp)
    /\ built = NoBuilt
    /\ ApiIdle
    /\ ExtIdle

\* await result_cache.set(key, result, ttl)
CacheSet(key, result, ttl) ==
    /\ cache' = ResultCache_set(cache, key, result, ttl, now)
    /\ prevOp' = Brief(lastOp)
    /\ lastOp' = [op |-> "set", key |-> key, ttl |-> ttl, ret |-> None,
                  pre |-> cache, t |-> now]
    /\ UNCHANGED <<now, built, apiVars, extVars>>

\* await result_cache.get(key)
CacheGet(key) ==
    LET g == ResultCache_get(cache, key, now) IN
    /\ cache' = g.cache
    /\ prevOp' = Brief(lastOp)
    /\ lastOp' = [op |-> "get", key |-> key, ttl |-> None, ret |-> g.ret,
                  pre |-> cache, t |-> now]
    /\ UNCHANGED <<now, built, apiVars, extVars>>

\* await result_cache.delete(key)
CacheDelete(key) ==
    /\ cache' = ResultCache_delete(cache, key)
    /\ prevOp' = Brief(lastOp)
    /\ lastOp' = [op |-> "delete", key |-> key, ttl |-> None, ret |-> None,
                  pre |-> cache, t |-> now]
    /\ UNCHANGED <<now, built, apiVars, extVars>>

\* await result_cache.clear()
CacheClear ==
    /\ cache' = ResultCache_clear(cache)
    /\ prevOp' = Brief(lastOp)
    /\ lastOp' = [op |-> "clear", key |-> None, ttl |-> None, ret |-> None,
                  pre |-> cache, t |-> now]
    /\ UNCHANGED <<now, built, apiVars, extVars>>

\* the clock advances between two calls
CacheTick ==
    /\ now < MaxTime
    /\ now' = now + 1
    /\ UNCHANGED <<cache, lastOp, prevOp, built, apiVars, extVars>>

NextCache ==
    \/ \E k \in CacheKeys, r \in SampleResults, ttl \in TtlArgs :
          CacheSet(k, r, ttl)
    \/ \E k \in CacheKeys : CacheGet(k)
    \/ \E k \in CacheKeys : CacheDelete(k)
    \/ CacheClear
    \/ CacheTick

SpecCache == InitCache /\ [][NextCache]_vars

----------------------------------------------------------------------------
(* The construction of results on its own: direct construction, parsing    *)
(* of a classifier response, and the fallback result.                      *)

\* risk scores, in hundredths, around every bucket boundary and out of range
Scores == {-10, 0, 10, 24, 25, 49, 50, 69, 70, 89, 90, 100, 150}
LevelArgs == RiskLevel \cup {"Severe"}
RawScores ==
    {[tag |-> "absent", val |-> 0], [tag |-> "null", val |-> 0]}
    \cup {[tag |-> "num", val |-> v] : v \in Scores}
RawLevels ==
    {None} \cup {Some(x) : x \in {"high", "HIGH", " low ", "medium",
                                 "Moderate", "minimal", "critical", "severe"}}
RawResponses ==
    {[kind |-> "garbage", risk_score |-> [tag |-> "absent", val |-> 0],
      risk_level |-> None],
     [kind |-> "array", risk_score |-> [tag |-> "absent", val |-> 0],
      risk_level |-> None]}
    \cup {[kind |-> "object", risk_score |-> x, risk_level |-> l] :
            x \in RawScores, l \in RawLevels}

\* the bucket of the score-range table: Minimal [0,0.25), Low [0.25,0.5),
\* Moderate [0.5,0.7), High [0.7,0.9), Critical [0.9,1.0]
Bucket(v) ==
    IF v < 25 THEN "Minimal"
    ELSE IF v < 50 THEN "Low"
    ELSE IF v < 70 THEN "Moderate"
    ELSE IF v < 90 THEN "High"
    ELSE "Critical"

InitSchema ==
    /\ now = 0
    /\ cache = [k \in {} |-> None]
    /\ lastOp = NoOp
    /\ prevOp = Brief(NoOp)
    /\ built = NoBuilt
    /\ ApiIdle
    /\ ExtIdle

SchemaFrame == UNCHANGED <<now, cache, lastOp, prevOp, apiVars, extVars>>

\* SafetyAnalysisResult(risk_score=score, risk_level=level, ...)
Construct(score, level) ==
    LET c == SafetyAnalysisResult([risk_score |-> score,
                                   risk_level |-> level,
                                   summary |-> "analysis",
                                   model_version |-> ModelName])
    IN  /\ built' = [via |-> "direct", ok |-> c.ok, err |-> c.err,
                     result |-> c.result, score |-> score, level |-> level]
        /\ SchemaFrame

\* gemini_service._parse_response(raw)
Parse(raw) ==
    LET c == _parse_response(raw)
    IN  /\ built' = [via |-> "parse", ok |-> c.ok, err |-> c.err,
                     result |-> c.result, score |-> raw.risk_score.val,
                     level |-> IF raw.risk_level = None THEN ""
                               ELSE raw.risk_level[1]]
        /\ SchemaFrame

\* GeminiErrorHandler.create_fallback_result(reason)
Fallback ==
    LET c == create_fallback_result
    IN  /\ built' = [via |-> "fallback", ok |-> c.ok, err |-> c.err,
                     result |-> c.result, score |-> 50, level |-> "Moderate"]
        /\ SchemaFrame

NextSchema ==
    \/ \E v \in Scores, l \in LevelArgs : Construct(v, l)
    \/ \E raw \in RawResponses : Parse(raw)
    \/ Fallback

SpecSchema == InitSchema /\ [][NextSchema]_vars

(* C7.  Every SafetyAnalysisResult that exists has a risk_level equal to   *)
(* the bucket of its risk_score; constructing a result with a mismatched   *)
(* score and level fails validation.                                       *)
C7_LevelIsBucketOfScore ==
    built.ok => built.result.risk_level = Bucket(built.result.risk_score)

----------------------------------------------------------------------------
(* The request handler: concurrent requests, the clock, and cache clears.  *)

\* what one call of the Gemini API can end in: a response text, an SDK
\* error (429, 503, timeout, invalid key), or the task being cancelled
\* while it waits
GeminiOutcomes ==
    {[kind |-> "response", raw |-> x, msg |-> "bad response"] : x \in ApiRaw}
    \cup {[kind |-> k, raw |-> GarbageRaw, msg |-> k] :
            k \in {"429", "503", "cancelled"}}
    \cup {[kind |-> "invalid_key", raw |-> GarbageRaw, msg |-> m] :
            m \in ExcTexts}

Transient == {"429", "503"}

\* gemini_service.analyze, one turn of the loop of _analyze_text_only:
\* _call_gemini, then _parse_response
GeminiCall(s) ==
    LET r == req[s]
        first == r.calls = 0
        d0 == IF first THEN [Did(r, "classify") EXCEPT
                               !.analyzed = @ + 1,
                               !.analyze_hour = HourOf(now)]
              ELSE r
        d == [d0 EXCEPT !.calls = @ + 1]
    IN  /\ r.pc = "classify"
        /\ \E out \in GeminiOutcomes :
             LET p == _parse_response(out.raw)
                 msg == out.msg
                 bad == [d EXCEPT !.malformed = @ + 1]
             IN
             req' = [req EXCEPT ![s] =
               IF out.kind = "response"
               THEN IF p.ok
                    THEN [d EXCEPT !.result = p.result,
                                   !.pc = StageAfter("classify", FALSE)]
                    ELSE IF p.err \in {"JSONDecodeError", "ValidationError"}
                    THEN \* except (json.JSONDecodeError, ValueError)
                         IF r.attempt < MaxRetries
                         THEN [bad EXCEPT !.attempt = @ + 1]
                         ELSE Fail500(bad, "GeminiParseError", p.err, msg)
                    ELSE Fail500(bad, p.err, p.err, msg)
               ELSE IF out.kind = "cancelled"
               THEN [d EXCEPT !.pc = "done",
                              !.exc = [type |-> "CancelledError",
                                       cause |-> "cancelled", msg |-> ""]]
               ELSE IF out.kind = "429"
               THEN \* GeminiRateLimitError
                    Respond([d EXCEPT !.transients = @ + 1,
                                      !.exc = [type |-> "GeminiRateLimitError",
                                               cause |-> out.kind,
                                               msg |-> msg]],
                            429, FALSE, <<"AI Service Rate Limit: ", msg>>,
                            NoResult)
               ELSE IF out.kind \in Transient
               THEN Fail500([d EXCEPT !.transients = @ + 1],
                            "GeminiAPIError", out.kind, msg)
               ELSE Fail500([d EXCEPT !.permanents = @ + 1],
                            "GeminiAPIError", out.kind, msg)]
        /\ UNCHANGED <<now, cache, requests, ip_requests, metrics>>
        /\ ApiFrame

\* await result_cache.set(cache_key, result)
CacheWrite(s) ==
    LET r == req[s]
    IN  /\ r.pc = "cache_write"
        /\ cache' = ResultCache_set(cache, r.cache_key[1], r.result, None, now)
        /\ req' = [req EXCEPT ![s] =
                     [Did(r, "cache_write") EXCEPT
                        !.wrote = TRUE,
                        !.wrote_at = now,
                        !.cleared = FALSE,
                        !.pc = StageAfter("cache_write", FALSE)]]
        /\ UNCHANGED <<now, requests, ip_requests, metrics>>
        /\ ApiFrame

\* metrics.record_request(latency, tokens) and the response
Record(s) ==
    LET r == req[s]
        tokens == TextLen(r.post[1].post_text) \div 4
    IN  /\ r.pc = "record"
        /\ metrics' = record_request(metrics, now, tokens)
        /\ req' = [req EXCEPT ![s] =
                     Respond([Did(r, "record") EXCEPT !.recorded = TRUE],
                             200, FALSE, <<>>, r.result)]
        /\ UNCHANGED <<now, cache, requests, ip_requests>>
        /\ ApiFrame

\* DELETE /api/cache, behind the abuse middleware
ClearCache(ip) ==
    LET a == check_abuse(ip_requests[ip], now)
    IN  /\ ip_requests' = [ip_requests EXCEPT ![ip] = a.log]
        /\ cache' = IF a.abuse THEN cache ELSE ResultCache_clear(cache)
        /\ req' = IF a.abuse THEN req
                  ELSE [s \in Slots |->
                          [req[s] EXCEPT !.cleared = req[s].wrote]]
        /\ UNCHANGED <<now, requests, metrics>>
        /\ ApiFrame

Tick ==
    /\ now < MaxTime
    /\ now' = now + 1
    /\ UNCHANGED <<cache, req, requests, ip_requests, metrics>>
    /\ ApiFrame

Init ==
    /\ now = 0
    /\ cache = [k \in {} |-> None]
    /\ lastOp = NoOp
    /\ prevOp = Brief(NoOp)
    /\ built = NoBuilt
    /\ ApiIdle
    /\ ExtIdle

Next ==
    \/ \E s \in Slots, ip \in Ips, key \in ApiKeys, inp \in ApiInputs :
          Arrive(s, ip, key, inp)
    \/ \E s \in Slots : Endpoint(s)
    \/ \E s \in Slots : CacheLookup(s)
    \/ \E s \in Slots : IngestUrl(s)
    \/ \E s \in Slots : IngestText(s)
    \/ \E s \in Slots : Enrich(s)
    \/ \E s \in Slots : GeminiCall(s)
    \/ \E s \in Slots : CacheWrite(s)
    \/ \E s \in Slots : Record(s)
    \/ \E ip \in Ips : ClearCache(ip)
    \/ Tick

Spec == Init /\ [][Next]_vars

----------------------------------------------------------------------------
(* The registry, the pipeline and the media cache on their own: adapters   *)
(* are registered in any order, URLs are routed, and content is ingested   *)
(* from URLs and from pasted text.                                         *)

\* the longest sequence of register calls followed
MaxRegs == 3

\* a URL that the patterns of more than one adapter match
SharedUrl == "https://reddit.com/r/a/comments/2"

\* the adapters that are registered: two RedditAdapter objects, an adapter
\* of another platform whose pattern also matches SharedUrl, and one whose
\* pattern matches none of the URLs
PipeAdapters ==
    { Adapter("reddit", "r1", {RedditUrl, SharedUrl}),
      Adapter("reddit", "r2", {RedditUrl, SharedUrl}),
      Adapter("twitter", "t1", {SharedUrl}),
      Adapter("tiktok", "k1", {}) }
PipeUrls == {RedditUrl, SharedUrl, OtherUrl}
PipeTexts == {"A", "B"}
PipeHints == {None, Some(""), Some("reddit"), Some("twitter"),
              Some("youtube")}

MediaUrls == {"https://i.example/a.jpg", "https://j.example/b.JPG?x=1",
              "https://k.example/c.png"}
MediaItem(type, url) == [media_type |-> type, url |-> url]
MediaLists ==
    {<<>>}
    \cup {<<MediaItem("image", u)>> : u \in MediaUrls}
    \cup {<<MediaItem("video", "https://l.example/d"),
            MediaItem("image", "https://k.example/c.png")>>}

\* what adapter.extract(url) does
ExtractOutcomes ==
    {[kind |-> "raise", err |-> e, media_items |-> <<>>] :
        e \in {"ContentExtractionError"}}
    \cup {[kind |-> "post", err |-> "", media_items |-> m] : m \in MediaLists}

\* what the media server answers
MediaResponses ==
    {[kind |-> "ok", content |-> c] : c \in {"x", "big"}}
    \cup {[kind |-> "http_error", content |-> ""]}

\* the media server is asked only when an adapter extracted a post with
\* an image
NoMediaResponse == [kind |-> "request_error", content |-> ""]
DownloadsMedia(url, extracted) ==
    /\ get_adapter_for_url(_adapters, url) # None
    /\ extracted.kind = "post"
    /\ \E i \in 1..Len(extracted.media_items) :
          extracted.media_items[i].media_type = "image"

\* a fresh AdapterRegistry and an empty media cache
InitPipe ==
    /\ now = 0
    /\ cache = [k \in {} |-> None]
    /\ lastOp = NoOp
    /\ prevOp = Brief(NoOp)
    /\ built = NoBuilt
    /\ ApiIdle
    /\ _adapters = <<>>
    /\ reg_log = <<>>
    /\ call = NoCall
    /\ cache_dir = {}
    /\ RestIdle

PipeFrame ==
    UNCHANGED <<now, cache, lastOp, prevOp, built, apiVars, restVars>>

\* adapter_registry.register(adapter)
Register(adapter) ==
    /\ Len(reg_log) < MaxRegs
    /\ _adapters' = register(_adapters, adapter)
    /\ reg_log' = Append(reg_log, adapter)
    /\ call' = [NoCall EXCEPT !.op = "register", !.registered = Some(adapter)]
    /\ UNCHANGED cache_dir
    /\ PipeFrame

\* adapter_registry.get_adapter_for_url(url)
Route(url) ==
    /\ call' = [NoCall EXCEPT
                  !.op = "get_adapter_for_url", !.url = url,
                  !.out = [NoOutcome EXCEPT
                             !.ok = TRUE,
                             !.adapter = get_adapter_for_url(_adapters, url)]]
    /\ UNCHANGED <<_adapters, reg_log, cache_dir>>
    /\ PipeFrame

\* await pipeline.ingest_from_url(url)
IngestFromUrl(url) ==
    \E extracted \in ExtractOutcomes :
    \E resp \in IF DownloadsMedia(url, extracted) THEN MediaResponses
                 ELSE {NoMediaResponse} :
    \E feat_ok \in IF DownloadsMedia(url, extracted) /\ resp.kind = "ok"
                    THEN BOOLEAN ELSE {TRUE} :
        LET r == ingest_from_url(_adapters, cache_dir, url, extracted, resp,
                                 feat_ok)
        IN  /\ call' = [NoCall EXCEPT
                          !.op = "ingest_from_url", !.url = url,
                          !.given = [extracted |-> extracted, resp |-> resp,
                                     feat_ok |-> feat_ok],
                          !.wrote = (r.files # cache_dir),
                          !.out = r.out]
            /\ cache_dir' = r.files
            /\ UNCHANGED <<_adapters, reg_log>>
            /\ PipeFrame

\* await pipeline.ingest_from_text(raw_text, platform_hint)
IngestFromText(raw_text, platform_hint) ==
    /\ call' = [NoCall EXCEPT
                  !.op = "ingest_from_text", !.text = raw_text,
                  !.hint = platform_hint,
                  !.out = ingest_from_text(_adapters, raw_text,
                                           platform_hint)]
    /\ UNCHANGED <<_adapters, reg_log, cache_dir>>
    /\ PipeFrame

\* await media_processor.cache.download_and_cache(url)
DownloadAndCache(url) ==
    \E resp \in MediaResponses :
        LET d == download_and_cache(cache_dir, url, resp)
        IN  /\ call' = [NoCall EXCEPT
                          !.op = "download_and_cache", !.url = url,
                          !.given = [NoGiven EXCEPT !.resp = resp],
                          !.wrote = d.wrote,
                          !.out = [NoOutcome EXCEPT !.ok = d.ok,
                                                    !.err = d.err]]
            /\ cache_dir' = d.files
            /\ UNCHANGED <<_adapters, reg_log>>
            /\ PipeFrame

NextPipe ==
    \/ \E a \in PipeAdapters : Register(a)
    \/ \E u \in PipeUrls : Route(u)
    \/ \E u \in PipeUrls : IngestFromUrl(u)
    \/ \E t \in PipeTexts, h \in PipeHints : IngestFromText(t, h)
    \/ \E u \in MediaUrls : DownloadAndCache(u)

SpecPipe == InitPipe /\ [][NextPipe]_vars

----------------------------------------------------------------------------
(* The lifespan of the application: src/backend/src/main.py, lifespan.     *)
(* The body runs statement by statement up to its yield, the application   *)
(* serves, and the statements after the yield run at shutdown.  A          *)
(* statement that raises ends the lifespan there: the function has no      *)
(* try, finally or except.                                                 *)

\* the cache backends CACHE_TYPE selects
CacheTypes == {"memory", "redis"}

\* before lifespan is entered
NoLife ==
    [pc |-> "start", pipeline |-> FALSE, http_client |-> "none",
     gemini_service |-> FALSE, backend |-> "", result_cache |-> "none",
     error |-> ""]

InitLife ==
    /\ now = 0
    /\ cache = [k \in {} |-> None]
    /\ lastOp = NoOp
    /\ prevOp = Brief(NoOp)
    /\ built = NoBuilt
    /\ ApiIdle
    /\ _adapters = <<>>
    /\ reg_log = <<>>
    /\ call = NoCall
    /\ cache_dir = {}
    /\ life = NoLife
    /\ heap = NoHeap
    /\ loop = NoLoop
    /\ fn_log = <<>>
    /\ ip_content_hashes = [i \in {} |-> {}]

LifeFrame ==
    UNCHANGED <<now, cache, lastOp, prevOp, built, apiVars, heap, loop,
                fn_log, ip_content_hashes>>

\* the statement raises: the lifespan is left with nothing after it run
LifeRaise(err) == [life EXCEPT !.pc = "exited", !.error = err]

\* media_cache_dir.mkdir(exist_ok=True);
\* pipeline = IngestionPipeline(media_cache_dir=media_cache_dir), whose
\* MediaCache opens the httpx.AsyncClient
ConstructPipeline ==
    /\ life.pc = "start"
    /\ \E mkdir_ok \in BOOLEAN :
          life' = IF ~mkdir_ok THEN LifeRaise("FileNotFoundError")
                  ELSE [life EXCEPT !.pc = "gemini", !.pipeline = TRUE,
                                    !.http_client = "open"]
    /\ UNCHANGED pipeVars
    /\ LifeFrame

\* if not gemini_api_key: raise ValueError("GEMINI_API_KEY not set");
\* gemini_service = GeminiService(api_key=gemini_api_key)
InitGemini ==
    /\ life.pc = "gemini"
    /\ \E gemini_api_key \in {None, Some(""), Some("k")} :
          life' = IF gemini_api_key = None \/ gemini_api_key[1] = ""
                  THEN LifeRaise("ValueError: GEMINI_API_KEY not set")
                  ELSE [life EXCEPT !.pc = "cache", !.gemini_service = TRUE]
    /\ UNCHANGED pipeVars
    /\ LifeFrame

\* result_cache = ResultCache(backend=...), which raises ImportError for
\* the redis backend when the redis package is missing;
\* metrics = MetricsTracker(...)
InitResultCache ==
    /\ life.pc = "cache"
    /\ \E cache_type \in CacheTypes, redis_installed \in BOOLEAN :
          life' = IF cache_type = "redis" /\ ~redis_installed
                  THEN LifeRaise("ImportError")
                  ELSE [life EXCEPT !.pc = "adapters",
                                    !.backend = cache_type,
                                    !.result_cache = "open"]
    /\ UNCHANGED pipeVars
    /\ LifeFrame

\* adapter_registry.register(reddit_adapter);
\* adapter_registry.register(twitter_adapter); the upload handler; yield
RegisterAdapters ==
    /\ life.pc = "adapters"
    /\ _adapters' = register(register(_adapters, RedditAdapter),
                             TwitterAdapter)
    /\ reg_log' = reg_log \o <<RedditAdapter, TwitterAdapter>>
    /\ life' = [life EXCEPT !.pc = "serving"]
    /\ UNCHANGED <<call, cache_dir>>
    /\ LifeFrame

\* a call of the pipeline or the registry while the application serves
Serving(url) ==
    /\ life.pc = "serving"
    /\ \/ Route(url)
       \/ IngestFromUrl(url)
       \/ \E t \in PipeTexts, h \in PipeHints : IngestFromText(t, h)
       \/ \E u \in MediaUrls : DownloadAndCache(u)

\* await pipeline.cleanup(): MediaProcessor.cleanup, MediaCache.close,
\* http_client.aclose()
PipelineCleanup ==
    /\ life.pc = "serving"
    /\ life' = [life EXCEPT !.pc = "closing", !.http_client = "closed"]
    /\ UNCHANGED pipeVars
    /\ LifeFrame

\* await result_cache.close(): nothing for the memory backend,
\* redis.close() for the redis backend, which may raise
ResultCacheClose ==
    /\ life.pc = "closing"
    /\ \E close_ok \in IF life.backend = "redis" THEN BOOLEAN ELSE {TRUE} :
          life' = IF close_ok
                  THEN [life EXCEPT !.pc = "exited",
                                    !.result_cache = "closed"]
                  ELSE LifeRaise("ConnectionError")
    /\ UNCHANGED pipeVars
    /\ LifeFrame

NextLife ==
    \/ ConstructPipeline
    \/ InitGemini
    \/ InitResultCache
    \/ RegisterAdapters
    \/ \E u \in PipeUrls : Serving(u)
    \/ PipelineCleanup
    \/ ResultCacheClose

SpecLife == InitLife /\ [][NextLife]_vars

----------------------------------------------------------------------------
(* Result objects and the memory backend.  A SafetyAnalysisResult is a     *)
(* mutable pydantic model; heap.objs holds the content of every result     *)
(* object, an object being named by its place in the sequence.             *)
(* MemoryCacheBackend.set puts the object it is given into its dict and    *)
(* get returns the object found there: the cache holds references.         *)

\* the most result objects that are created
MaxObjs == 2

Objs == 1..Len(heap.objs)

AliasFrame ==
    UNCHANGED <<now, lastOp, prevOp, built, apiVars, pipeVars, life, loop,
                fn_log, ip_content_hashes>>

\* result = await gemini_service.analyze(post): a new result object
NewResult(result) ==
    /\ Len(heap.objs) < MaxObjs
    /\ heap' = [heap EXCEPT !.objs = Append(@, result)]
    /\ UNCHANGED cache
    /\ AliasFrame

\* await result_cache.set(key, r) with r the object o; heap.stored
\* remembers the content r had when it was stored
SetObject(key, o) ==
    /\ cache' = ResultCache_set(cache, key, o, None, now)
    /\ heap' = [heap EXCEPT
                  !.stored = [k \in DOMAIN @ \cup {key} |->
                                IF k = key THEN heap.objs[o] ELSE @[k]]]
    /\ AliasFrame

\* r = await result_cache.get(key): the object returned and the content
\* the caller reads from it
GetObject(key) ==
    LET g == ResultCache_get(cache, key, now) IN
    /\ cache' = g.cache
    /\ heap' = [heap EXCEPT
                  !.got = IF g.ret = None THEN None
                          ELSE Some([key |-> key, obj |-> g.ret[1],
                                     value |-> heap.objs[g.ret[1]]])]
    /\ AliasFrame

\* r.summary = ... on a result object a request holds, the one it passed
\* to set or one that get returned
MutateObject(o) ==
    /\ heap.objs[o].summary # "edited"
    /\ heap' = [heap EXCEPT !.objs[o].summary = "edited"]
    /\ UNCHANGED cache
    /\ AliasFrame

NextAlias ==
    \/ \E r \in SampleResults : NewResult(r)
    \/ \E k \in CacheKeys, o \in Objs : SetObject(k, o)
    \/ \E k \in CacheKeys : GetObject(k)
    \/ \E o \in Objs : MutateObject(o)

SpecAlias == InitCache /\ [][NextAlias]_vars

----------------------------------------------------------------------------
(* Concurrent calls of the memory backend.  Every call of get or set is a  *)
(* coroutine on the one event loop; loop.tasks holds the calls in flight,  *)
(* each at a statement of MemoryCacheBackend.get or .set, and              *)
(* loop.running is the coroutine that holds the loop.  Another coroutine   *)
(* runs only when the running one suspends or returns.  loop.last_set is   *)
(* the (value, expiry) pair of the set that returned last.                 *)

\* the most calls in flight together
MaxTasks == 3

\* the key the calls are made on
LoopKey == generate_cache_key(Some("A"), None)[1]

NoTask == [op |-> "", pc |-> "done", value |-> NoResult, ttl_seconds |-> 0,
           result |-> NoResult, expiry |-> 0, ret |-> None, err |-> "",
           last_set |-> None]

\* a mutant of Suspends: the loop may switch after every statement
Suspends_anywhere(op, pc) == TRUE

\* whether the coroutine gives up the loop after the statement at pc: no
\* statement of MemoryCacheBackend.get or .set awaits anything
Suspends(op, pc) == FALSE

\* one statement of MemoryCacheBackend.get, run by the task at time t
get_stmt(c, task, t, last) ==
    LET return(v) == [task EXCEPT !.pc = "done", !.ret = v,
                                  !.last_set = last]
    IN  CASE task.pc = "g1" ->     \* if key in self.cache:
               [cache |-> c,
                task |-> IF LoopKey \in DOMAIN c
                         THEN [task EXCEPT !.pc = "g2"]
                         ELSE return(None)]
          [] task.pc = "g2" ->     \* result, expiry = self.cache[key]
               [cache |-> c,
                task |-> IF LoopKey \in DOMAIN c
                         THEN [task EXCEPT !.pc = "g3",
                                           !.result = c[LoopKey].value,
                                           !.expiry = c[LoopKey].expiry]
                         ELSE [return(None) EXCEPT !.err = "KeyError"]]
          [] task.pc = "g3" ->     \* if datetime.utcnow() < expiry:
               [cache |-> c,       \*     return result
                task |-> IF t < task.expiry
                         THEN return(Some(task.result))
                         ELSE [task EXCEPT !.pc = "g4"]]
          [] OTHER ->              \* del self.cache[key]; return None
               IF LoopKey \in DOMAIN c
               THEN [cache |-> MemoryCacheBackend_delete(c, LoopKey),
                     task |-> return(None)]
               ELSE [cache |-> c,
                     task |-> [return(None) EXCEPT !.err = "KeyError"]]

\* one statement of MemoryCacheBackend.set, run by the task at time t
set_stmt(c, task, t) ==
    IF task.pc = "s1"   \* expiry = utcnow() + timedelta(seconds=ttl_seconds)
    THEN [cache |-> c,
          task |-> [task EXCEPT !.pc = "s2",
                                !.expiry = t + task.ttl_seconds]]
    ELSE                \* self.cache[key] = (value, expiry)
         [cache |-> MemoryCacheBackend_set(c, LoopKey, task.value,
                                           task.ttl_seconds,
                                           task.expiry - task.ttl_seconds),
          task |-> [task EXCEPT !.pc = "done"]]

LoopFrame ==
    UNCHANGED <<lastOp, prevOp, built, apiVars, pipeVars, life, heap,
                fn_log, ip_content_hashes>>

\* a request calls await cache.get(key)
CallGet ==
    /\ Len(loop.tasks) < MaxTasks
    /\ loop' = [loop EXCEPT
                  !.tasks = Append(@, [NoTask EXCEPT !.op = "get",
                                                     !.pc = "g1"])]
    /\ UNCHANGED <<now, cache>>
    /\ LoopFrame

\* a request calls await cache.set(key, value, ttl_seconds)
CallSet(value, ttl_seconds) ==
    /\ Len(loop.tasks) < MaxTasks
    /\ loop' = [loop EXCEPT
                  !.tasks = Append(@, [NoTask EXCEPT
                                         !.op = "set", !.pc = "s1",
                                         !.value = value,
                                         !.ttl_seconds = ttl_seconds])]
    /\ UNCHANGED <<now, cache>>
    /\ LoopFrame

\* the event loop runs the next statement of coroutine i
RunStatement(i) ==
    /\ loop.tasks[i].pc # "done"
    /\ loop.running \in {None, Some(i)}
    /\ LET task == loop.tasks[i]
           r == IF task.op = "get"
                THEN get_stmt(cache, task, now, loop.last_set)
                ELSE set_stmt(cache, task, now)
       IN  /\ cache' = r.cache
           /\ loop' = [tasks |-> [loop.tasks EXCEPT ![i] = r.task],
                       running |-> IF r.task.pc = "done"
                                      \/ Suspends(task.op, task.pc)
                                   THEN None ELSE Some(i),
                       last_set |-> IF task.op = "set" /\ r.task.pc = "done"
                                    THEN Some(r.cache[LoopKey])
                                    ELSE loop.last_set]
    /\ UNCHANGED now
    /\ LoopFrame

\* the clock advances
LoopTick ==
    /\ now < MaxTime
    /\ now' = now + 1
    /\ UNCHANGED <<cache, loop>>
    /\ LoopFrame

NextLoop ==
    \/ CallGet
    \/ \E r \in SampleResults, ttl \in {1, 2} : CallSet(r, ttl)
    \/ \E i \in 1..Len(loop.tasks) : RunStatement(i)
    \/ LoopTick

SpecLoop == InitCache /\ [][NextLoop]_vars

----------------------------------------------------------------------------
(* The key function of the result cache and the paste mode of the          *)
(* adapters, called directly: fn_log holds every call with its answer.     *)

\* the most calls that are logged
MaxCalls == 3

KeyArgs == {None, Some(""), Some("A"), Some("B")}
PasteAdapters == {"reddit", "twitter", "telegram"}

FnFrame ==
    UNCHANGED <<now, cache, lastOp, prevOp, built, apiVars, pipeVars, life,
                heap, loop, ip_content_hashes>>

\* cache.generate_cache_key(url=url, text=text)
GenerateCacheKey(url, text) ==
    /\ Len(fn_log) < MaxCalls
    /\ fn_log' = Append(fn_log,
                        [fn |-> "generate_cache_key", url |-> url,
                         text |-> text, adapter |-> "",
                         key |-> generate_cache_key(url, text),
                         out |-> [ok |-> generate_cache_key(url, text) # None,
                                  err |-> IF generate_cache_key(url, text)
                                             = None
                                          THEN "ValueError" ELSE "",
                                  post |-> None]])
    /\ FnFrame

\* await adapter.extract_from_text(raw_text)
ExtractFromText(platform, raw_text) ==
    /\ Len(fn_log) < MaxCalls
    /\ fn_log' = Append(fn_log,
          [fn |-> "extract_from_text", url |-> None,
           text |-> Some(raw_text), adapter |-> platform, key |-> None,
           out |-> CASE platform = "reddit" ->
                          [ok |-> TRUE, err |-> "",
                           post |-> Some(extract_from_text(RedditAdapter,
                                                           raw_text))]
                     [] platform = "twitter" ->
                          [ok |-> TRUE, err |-> "",
                           post |-> Some(extract_from_text(TwitterAdapter,
                                                           raw_text))]
                     [] OTHER ->
                          TelegramAdapter_extract_from_text(raw_text)])
    /\ FnFrame

NextFn ==
    \/ \E u \in KeyArgs, t \in KeyArgs : GenerateCacheKey(u, t)
    \/ \E p \in PasteAdapters, t \in PipeTexts : ExtractFromText(p, t)

SpecFn == InitCache /\ [][NextFn]_vars

----------------------------------------------------------------------------
(* The abuse detector on its own: requests from several origins pass       *)
(* through AbusePreventionMiddleware.dispatch, check_abuse is also called  *)
(* with a content, and the clock advances.  fn_log holds every call with   *)
(* the request's body, the answer, and the origin's log before and after.  *)

\* the most requests that are followed
MaxAbuseCalls == 4

AbuseIps == {"10.0.0.1", "10.0.0.2"}
Bodies == {"c1", "c2", "c3"}

InitAbuse ==
    /\ now = 0
    /\ cache = [k \in {} |-> None]
    /\ lastOp = NoOp
    /\ prevOp = Brief(NoOp)
    /\ built = NoBuilt
    /\ req = [s \in Slots |-> IdleReq]
    /\ requests = [k \in ApiKeys |-> <<>>]
    /\ ip_requests = [i \in AbuseIps |-> <<>>]
    /\ metrics = InitMetrics
    /\ PipeIdle
    /\ life = LifeServing
    /\ heap = NoHeap
    /\ loop = NoLoop
    /\ fn_log = <<>>
    /\ ip_content_hashes = [i \in AbuseIps |-> {}]

AbuseFrame ==
    UNCHANGED <<cache, lastOp, prevOp, built, req, requests, metrics,
                pipeVars, life, heap, loop>>

\* abuse_detector.check_abuse(ip, content) for a request with this body
CheckAbuse(fn, ip, body, content) ==
    LET a == AbuseDetector_check_abuse(ip_requests[ip],
                                       ip_content_hashes[ip], now, content)
    IN  /\ Len(fn_log) < MaxAbuseCalls
        /\ ip_requests' = [ip_requests EXCEPT ![ip] = a.log]
        /\ ip_content_hashes' = [ip_content_hashes EXCEPT ![ip] = a.hashes]
        /\ fn_log' = Append(fn_log,
                            [fn |-> fn, ip |-> ip, body |-> body, t |-> now,
                             abuse |-> a.abuse, reason |-> a.reason,
                             status |-> IF a.abuse THEN 429 ELSE 200,
                             pre |-> ip_requests, post |-> ip_requests'])
        /\ UNCHANGED now
        /\ AbuseFrame

\* AbusePreventionMiddleware.dispatch for a request from ip with this
\* body: check_abuse is called with an empty content
Dispatch(ip, body) == CheckAbuse("dispatch", ip, body, "")

\* a direct call of check_abuse with the body as content
DirectCheck(ip, body) == CheckAbuse("check_abuse", ip, body, body)

AbuseTick ==
    /\ now < MaxTime
    /\ now' = now + 1
    /\ UNCHANGED <<ip_requests, ip_content_hashes, fn_log>>
    /\ AbuseFrame

NextAbuse ==
    \/ \E ip \in AbuseIps, b \in Bodies : Dispatch(ip, b)
    \/ \E ip \in AbuseIps, b \in Bodies : DirectCheck(ip, b)
    \/ AbuseTick

SpecAbuse == InitAbuse /\ [][NextAbuse]_vars

----------------------------------------------------------------------------
(* The size limits on the way to POST /api/analyze: src/backend/src/main.py, *)
(* RequestSizeLimitMiddleware as the application installs it, and the      *)
(* validation of AnalysisRequest.  Sizes are in model units that keep the  *)
(* order of the real ones: 50000 characters < 1 MB < 15 MB.                *)

\* AnalysisRequest.text: Field(None, max_length=50000)
TextMaxLength == 1
\* 1 MB, the default max_size of RequestSizeLimitMiddleware
OneMegabyte == 2
\* app.add_middleware(RequestSizeLimitMiddleware, max_size=15 * 1024 * 1024)
InstalledMaxSize == 4

\* RequestSizeLimitMiddleware.dispatch: 413 when the request has a
\* content-length header whose value is over max_size, else call_next
RequestSizeLimitMiddleware_dispatch(content_length, max_size) ==
    IF content_length # None /\ content_length[1] > max_size
    THEN [status |-> 413, passed |-> FALSE]
    ELSE [status |-> 0, passed |-> TRUE]

\* the request bodies: a JSON object with a text of text_len characters
\* in a body of body_size bytes, sent with or without a content-length
HttpBodies ==
    {[body_size |-> b, text_len |-> l,
      content_length |-> IF sent THEN Some(b) ELSE None] :
        b \in 1..(InstalledMaxSize + 1), l \in 1..(InstalledMaxSize + 1),
        sent \in BOOLEAN}

\* POST /api/analyze with this body, past the abuse middleware: the size
\* middleware, then the validation of the body, then the endpoint
PostAnalyze(body) ==
    LET m == RequestSizeLimitMiddleware_dispatch(body.content_length,
                                                 InstalledMaxSize)
        valid == body.text_len <= TextMaxLength
    IN  /\ body.text_len <= body.body_size
        /\ Len(fn_log) < MaxCalls
        /\ fn_log' = Append(fn_log,
                            [fn |-> "post_analyze", body |-> body,
                             status |-> IF ~m.passed THEN m.status
                                        ELSE IF ~valid THEN 422 ELSE 200,
                             endpoint |-> m.passed /\ valid])
        /\ FnFrame

NextHttp == \E body \in HttpBodies : PostAnalyze(body)

SpecHttp == InitCache /\ [][NextHttp]_vars

----------------------------------------------------------------------------
(* Claims about the request handler.                                       *)

Done(s) == req[s].pc = "done"
Failed(s) == Done(s) /\ req[s].resp.status # 200
Steps(s) == {req[s].trace[i] : i \in 1..Len(req[s].trace)}

(* C1.  A request answered from the result cache (cached = true) consumes  *)
(* no quota: it adds nothing to the request log of its API key and nothing *)
(* to the hourly and daily request counters and the daily token counter.   *)
C1_CacheHitConsumesNoQuota ==
    \A s \in Slots :
        (Done(s) /\ req[s].resp.cached) =>
            ~req[s].logged /\ ~req[s].recorded

\* the order the claim gives to the steps of a request
Order == <<"abuse_check", "key_quota_check", "cache_lookup",
           "global_quota_check", "extract", "enrich", "classify",
           "cache_write", "record">>
Rank(step) == CHOOSE i \in 1..Len(Order) : Order[i] = step
InOrder(trace) ==
    \A i \in 1..(Len(trace) - 1) : Rank(trace[i]) < Rank(trace[i + 1])

(* C2.  For every request that reaches the classifier, its steps happen    *)
(* strictly in the order abuse check, per-identity quota check, cache      *)
(* lookup (a miss), extraction, media enrichment (when the post has an     *)
(* image), classifier invocation, cache write, metrics recording: each     *)
(* step is taken at most once, after all the steps before it.              *)
C2_StepsInOrder ==
    \A s \in Slots :
        req[s].analyzed > 0 =>
            /\ InOrder(req[s].trace)
            /\ {"abuse_check", "key_quota_check", "cache_lookup", "extract",
                "classify"} \subseteq Steps(s)
            /\ req[s].saw = None \/ ~req[s].saw[1].live
            /\ req[s].post[1].has_image => "enrich" \in Steps(s)
            /\ req[s].wrote <=> "cache_write" \in Steps(s)
            /\ req[s].recorded <=> "record" \in Steps(s)
            /\ (Done(s) /\ req[s].resp.status = 200) =>
                   {"cache_write", "record"} \subseteq Steps(s)

\* a request with an image has gone through every step
C2_Witness ==
    \E s \in Slots :
        /\ Done(s)
        /\ req[s].resp.status = 200
        /\ req[s].trace = Order

(* C3, as stated.  A request that ends in any failure leaves the result    *)
(* cache exactly as it was: it neither writes nor removes an entry.        *)
C3_FailureLeavesCacheUntouched ==
    \A s \in Slots :
        Failed(s) => ~req[s].wrote /\ ~req[s].evicted

(* C3, amended.  A request writes a result-cache entry only after its      *)
(* classifier call has returned a complete result, and a request that ends *)
(* in any failure writes no entry; the only change such a request can make *)
(* to the cache is the lazy eviction, by its own lookup, of an entry of    *)
(* its key that had already expired.                                       *)
C3_WriteOnlyAfterClassification ==
    \A s \in Slots :
        /\ req[s].wrote =>
              /\ "classify" \in Steps(s)
              /\ req[s].calls >= 1
              /\ req[s].result # NoResult
              /\ req[s].result.risk_level \in RiskLevel
        /\ Failed(s) => ~req[s].wrote
        /\ req[s].evicted => req[s].saw # None /\ ~req[s].saw[1].live

\* a request has failed at the classifier while the cache holds an entry
C3_Witness ==
    \E s \in Slots :
        /\ Failed(s)
        /\ "classify" \in Steps(s)
        /\ DOMAIN cache # {}

(* C4.  When the same text is submitted in two requests and the second     *)
(* looks the cache up after the first has stored its result, less than the *)
(* default TTL later and with no clearing of the cache in between, the     *)
(* second response has cached = true and carries the first result, the     *)
(* second request does not invoke the classifier, and gemini_service       *)
(* .analyze has been invoked exactly once for the two.                     *)
C4_SecondIsCacheHit ==
    \A a, b \in Slots :
        ( /\ a # b
          /\ req[a].url = None /\ req[b].url = None
          /\ req[a].text # None /\ req[a].text = req[b].text
          /\ req[a].wrote /\ req[a].result # NoResult
          /\ req[b].fresh )
        => /\ Done(b)
           /\ req[b].resp.status = 200
           /\ req[b].resp.cached
           /\ req[b].resp.data = req[a].result
           /\ req[b].calls = 0
           /\ req[a].analyzed + req[b].analyzed = 1

\* the second of two requests with the same text was answered from the cache
C4_Witness ==
    \E a, b \in Slots :
        /\ a # b
        /\ req[a].text # None /\ req[a].text = req[b].text
        /\ Done(a) /\ req[a].resp.status = 200 /\ ~req[a].resp.cached
        /\ Done(b) /\ req[b].resp.cached
        /\ req[b].resp.data = req[a].resp.data

(* C8.  When every response of the classifier is unparseable or violates   *)
(* the schema, analyze makes at most max_retries + 1 calls and then        *)
(* returns the fallback result (risk_score 0.5, Moderate); the parse       *)
(* failure never reaches the caller as an error.                           *)
C8_ParseFailureGivesFallback ==
    \A s \in Slots :
        (Done(s) /\ req[s].malformed > 0 /\ req[s].malformed = req[s].calls)
        => /\ req[s].calls <= MaxRetries + 1
           /\ req[s].resp.status = 200
           /\ req[s].resp.data = create_fallback_result.result

(* C9.  A transient classifier error (timeout, 429, 503) is retried before *)
(* it is surfaced, and a non-transient error (an invalid key) propagates   *)
(* after a single call.                                                    *)
C9_TransientIsRetried ==
    \A s \in Slots :
        /\ (Done(s) /\ req[s].exc.cause \in Transient) =>
               req[s].transients >= 2
        /\ (Done(s) /\ req[s].exc.cause = "invalid_key") =>
               req[s].permanents = 1

(* C10.  The caller-visible message of an internal error does not depend   *)
(* on the exception: two requests that end in the same kind of internal    *)
(* error, with different exception messages, get identical responses.      *)
C10_ErrorMessageIsGeneric ==
    \A a, b \in Slots :
        ( /\ Done(a) /\ Done(b)
          /\ req[a].resp.status = 500 /\ req[b].resp.status = 500
          /\ req[a].exc.type = req[b].exc.type
          /\ req[a].exc.cause = req[b].exc.cause )
        => req[a].resp = req[b].resp

----------------------------------------------------------------------------
(* C5.  On the result cache, set(k, v, ttl=0) followed immediately by      *)
(* get(k) returns absent: an entry stored with a TTL of zero is already    *)
(* expired and is never returned.                                          *)
C5_TtlZeroIsAbsent ==
    ( /\ lastOp.op = "get"
      /\ prevOp.op = "set"
      /\ prevOp.key = lastOp.key
      /\ prevOp.ttl = Some(0)
      /\ prevOp.t = lastOp.t )
    => lastOp.ret = None

(* C6.  get(key) returns a value only if an entry for key is present and   *)
(* its expiry time has not been reached, and then it is that entry's       *)
(* value; a get on a present but expired entry returns absent and removes  *)
(* the entry from the store; the entries of all other keys stay as they    *)
(* were.                                                                   *)
C6_GetOnlyLiveAndLazyEvict ==
    lastOp.op = "get" =>
        LET k == lastOp.key
            pre == lastOp.pre
        IN  /\ lastOp.ret # None =>
                /\ k \in DOMAIN pre
                /\ lastOp.t < pre[k].expiry
                /\ lastOp.ret = Some(pre[k].value)
                /\ cache = pre
            /\ (k \in DOMAIN pre /\ lastOp.t >= pre[k].expiry) =>
                /\ lastOp.ret = None
                /\ k \notin DOMAIN cache
            /\ \A j \in CacheKeys \ {k} :
                /\ (j \in DOMAIN cache) <=> (j \in DOMAIN pre)
                /\ j \in DOMAIN pre => cache[j] = pre[j]

\* a get has just evicted an expired entry while another key is stored
C6_Witness ==
    /\ lastOp.op = "get"
    /\ lastOp.key \in DOMAIN lastOp.pre
    /\ lastOp.t >= lastOp.pre[lastOp.key].expiry
    /\ lastOp.ret = None
    /\ \E j \in CacheKeys \ {lastOp.key} : j \in DOMAIN cache


----------------------------------------------------------------------------
(* Claims about the registry, the pipeline and the media cache.            *)

Min1(S) == CHOOSE i \in S : \A j \in S : i <= j

\* the adapters registered now, by the calls made: for each platform the
\* adapter of the last register call that named it
Current(log) ==
    {log[i] : i \in {i \in 1..Len(log) :
                       \A j \in (i + 1)..Len(log) :
                          log[j].platform_name # log[i].platform_name}}
\* the call that registered the adapter first
FirstCall(log, a) == Min1({i \in 1..Len(log) : log[i] = a})
\* the call that registered the adapter's platform first
FirstPlatformCall(log, a) ==
    Min1({i \in 1..Len(log) : log[i].platform_name = a.platform_name})

(* C11, as stated.  get_adapter_for_url(U) returns the adapter that was    *)
(* registered first among the currently registered adapters that can       *)
(* handle U, and None when none can.                                       *)
C11_FirstRegisteredWins ==
    call.op = "get_adapter_for_url" =>
        LET able == {a \in Current(reg_log) : can_handle(a, call.url)}
        IN  IF able = {} THEN call.out.adapter = None
            ELSE /\ call.out.adapter # None
                 /\ call.out.adapter[1] \in able
                 /\ \A b \in able :
                       FirstCall(reg_log, call.out.adapter[1])
                           <= FirstCall(reg_log, b)

(* C11, amended.  get_adapter_for_url(U) returns, among the currently      *)
(* registered adapters that can handle U, the one whose platform was       *)
(* registered first (registering an adapter for a platform that is         *)
(* already registered replaces that platform's adapter where it stands),   *)
(* and None, not an error, when none can.                                  *)
C11_FirstRegisteredPlatformWins ==
    call.op = "get_adapter_for_url" =>
        LET able == {a \in Current(reg_log) : can_handle(a, call.url)}
        IN  /\ call.out.ok
            /\ IF able = {} THEN call.out.adapter = None
               ELSE /\ call.out.adapter # None
                    /\ call.out.adapter[1] \in able
                    /\ \A b \in able :
                          FirstPlatformCall(reg_log, call.out.adapter[1])
                              <= FirstPlatformCall(reg_log, b)

\* a URL that two registered adapters can handle has been routed after a
\* platform was registered twice
C11_Witness ==
    /\ call.op = "get_adapter_for_url"
    /\ Cardinality({a \in Current(reg_log) : can_handle(a, call.url)}) = 2
    /\ Len(reg_log) > Len(_adapters)
    /\ call.out.adapter # None

\* some registered adapter's url_pattern matches the URL of the call
Claimed == \E i \in 1..Len(_adapters) : can_handle(_adapters[i], call.url)

(* C12.  ingest_from_url never swallows an extraction failure: when no     *)
(* registered adapter claims the URL it fails with the no-adapter error    *)
(* and no adapter's extract is called; when the chosen adapter's extract   *)
(* raises, the call fails with that error; in both cases no post is        *)
(* returned, media enrichment is not run and nothing is downloaded.        *)
C12_ExtractionFailureSurfaces ==
    call.op = "ingest_from_url" =>
        /\ ~Claimed =>
              /\ ~call.out.ok
              /\ call.out.err = "ValueError: No adapter found"
              /\ call.out.extracted_by = None
        /\ (Claimed /\ call.given.extracted.kind = "raise") =>
              /\ ~call.out.ok
              /\ call.out.err = call.given.extracted.err
              /\ call.out.extracted_by # None
        /\ (~Claimed \/ call.given.extracted.kind = "raise") =>
              /\ call.out.post = None
              /\ ~call.out.enrich_ran
              /\ ~call.wrote

\* the extract of the adapter chosen for the URL has raised
C12_Witness ==
    /\ call.op = "ingest_from_url"
    /\ Claimed
    /\ call.given.extracted.kind = "raise"
    /\ call.out.err = "ContentExtractionError"

\* the download or the feature extraction of the post's image fails
EnrichmentFails ==
    /\ \E i \in 1..Len(call.given.extracted.media_items) :
          call.given.extracted.media_items[i].media_type = "image"
    /\ \/ call.given.resp.kind # "ok"
       \/ ContentLen(call.given.resp.content) > MaxSizeBytes
       \/ ~call.given.feat_ok

HintRegistered ==
    /\ call.hint # None
    /\ \E a \in Current(reg_log) : a.platform_name = call.hint[1]

\* the currently registered adapter that was registered first, and the
\* currently registered adapter of the platform that was registered first
FirstRegistered(log) ==
    CHOOSE a \in Current(log) :
        \A b \in Current(log) : FirstCall(log, a) <= FirstCall(log, b)
FirstPlatform(log) ==
    CHOOSE a \in Current(log) :
        \A b \in Current(log) :
            FirstPlatformCall(log, a) <= FirstPlatformCall(log, b)

\* what C14 says of every paste call but the choice of the fallback
PasteContract ==
    /\ call.out.extracted_by = None
    /\ ~call.out.ok <=> reg_log = <<>>
    /\ ~call.out.ok => call.out.err = "ValueError: No adapters registered"
    /\ call.out.ok => /\ call.out.pasted_by # None
                      /\ call.out.post # None
                      /\ call.out.post[1] =
                            extract_from_text(call.out.pasted_by[1],
                                              call.text)
    /\ (call.out.ok /\ HintRegistered) =>
          /\ call.out.pasted_by[1] \in Current(reg_log)
          /\ call.out.pasted_by[1].platform_name = call.hint[1]

(* C14, as stated.  ingest_from_text uses the paste mode of the adapter    *)
(* registered for platform_hint when the hint names a registered           *)
(* platform, and otherwise that of the first-registered adapter; it fails  *)
(* with the no-adapters error exactly when the registry is empty, and it   *)
(* never calls an adapter's extract.                                       *)
C14_FallbackIsFirstRegistered ==
    call.op = "ingest_from_text" =>
        /\ PasteContract
        /\ (call.out.ok /\ ~HintRegistered) =>
              call.out.pasted_by[1] = FirstRegistered(reg_log)

(* C14, amended.  As C14, but the fallback is the adapter currently        *)
(* registered for the platform that was registered first.                  *)
C14_FallbackIsFirstPlatform ==
    call.op = "ingest_from_text" =>
        /\ PasteContract
        /\ (call.out.ok /\ ~HintRegistered) =>
              call.out.pasted_by[1] = FirstPlatform(reg_log)

\* a text was pasted with a hint naming the platform registered second
C14_Witness ==
    /\ call.op = "ingest_from_text"
    /\ HintRegistered
    /\ Len(_adapters) > 1
    /\ call.out.ok
    /\ call.out.pasted_by[1] = _adapters[2]

(* C18.  The media cache holds at most one file per distinct content       *)
(* hash: URLs that resolve to byte-identical content share one cache path  *)
(* and the later download writes no second file.                           *)
C18_OneFilePerContentHash ==
    \A p, q \in cache_dir : p[1] = q[1] => p = q

----------------------------------------------------------------------------
(* Claims about the lifespan of the application.                           *)

(* C15.  Once the IngestionPipeline has been constructed, the HTTP client  *)
(* of its media cache is closed on every exit path of lifespan: whenever   *)
(* lifespan has been left, normally or by a raised error, with a pipeline  *)
(* constructed, the client has been closed.                                *)
C15_HttpClientClosedOnExit ==
    (life.pc = "exited" /\ life.pipeline) => life.http_client = "closed"

----------------------------------------------------------------------------
(* Claims about result objects in the cache.                               *)

(* C16.  The result cache holds an independent copy of each stored         *)
(* result: what get(k) returns has the content the result had when it was  *)
(* stored by set(k, r), whatever has since been done to r or to an object  *)
(* an earlier get(k) returned.                                             *)
C16_CacheHoldsIndependentCopy ==
    heap.got # None => heap.got[1].value = heap.stored[heap.got[1].key]

----------------------------------------------------------------------------
(* Claims about concurrent calls of the result cache.                      *)

----------------------------------------------------------------------------
(* Claims about the key function and the paste mode.                       *)

Absent(arg) == arg = None \/ arg = Some("")
KeyCalls == {i \in 1..Len(fn_log) : fn_log[i].fn = "generate_cache_key"}
UrlCalls == {i \in KeyCalls : ~Absent(fn_log[i].url)
                              /\ fn_log[i].text = None}
TextCalls == {i \in KeyCalls : fn_log[i].url = None
                               /\ ~Absent(fn_log[i].text)}

(* C19.  generate_cache_key is deterministic and namespaced by the kind    *)
(* of its input: the key of a URL differs from the key of any text, the    *)
(* same string included; two URLs have the same key exactly when they are  *)
(* equal, and so have two texts; a call with neither a url nor a text      *)
(* fails with an error and returns no key.                                 *)
C19_KeysAreNamespaced ==
    /\ \A i \in UrlCalls, j \in TextCalls :
          /\ fn_log[i].key # None /\ fn_log[j].key # None
          /\ fn_log[i].key # fn_log[j].key
    /\ \A i, j \in UrlCalls :
          fn_log[i].key = fn_log[j].key <=> fn_log[i].url = fn_log[j].url
    /\ \A i, j \in TextCalls :
          fn_log[i].key = fn_log[j].key <=> fn_log[i].text = fn_log[j].text
    /\ \A i \in KeyCalls :
          (fn_log[i].url = None /\ fn_log[i].text = None) =>
              /\ ~fn_log[i].out.ok
              /\ fn_log[i].out.err = "ValueError"
              /\ fn_log[i].key = None

\* the same string has been keyed as a URL and as a text, and a call was
\* made with neither
C19_Witness ==
    /\ \E i \in UrlCalls, j \in TextCalls : fn_log[i].url = fn_log[j].text
    /\ \E i \in KeyCalls : fn_log[i].url = None /\ fn_log[i].text = None

PasteCalls == {i \in 1..Len(fn_log) : fn_log[i].fn = "extract_from_text"}

(* C20.  For every adapter (Reddit, Twitter, Telegram) and every text t,   *)
(* extract_from_text(t) returns a post whose post_text is t and whose      *)
(* post_id begins with the platform name and "paste" and is a function of  *)
(* t alone: equal for equal texts, different for different texts.          *)
C20_PasteIdsAreDeterministic ==
    /\ \A i \in PasteCalls :
          /\ fn_log[i].out.ok
          /\ fn_log[i].out.post # None
          /\ fn_log[i].out.post[1].post_text = fn_log[i].text[1]
          /\ fn_log[i].out.post[1].post_id[1] = fn_log[i].adapter
          /\ fn_log[i].out.post[1].post_id[2] = "_paste_"
    /\ \A i, j \in PasteCalls :
          (fn_log[i].adapter = fn_log[j].adapter
              /\ fn_log[i].out.post # None /\ fn_log[j].out.post # None) =>
              (fn_log[i].out.post[1].post_id = fn_log[j].out.post[1].post_id
                  <=> fn_log[i].text = fn_log[j].text)

----------------------------------------------------------------------------
(* Further claims about the request handler.                               *)

\* the request carries exactly one of url and text
ExactlyOne(r) == (r.url = None) # (r.text = None)

(* C21.  analyze_content processes a request only if it carries exactly    *)
(* one of url and text: a request with neither, and a request with both,   *)
(* makes no cache lookup and no ingestion, and ends as an input error      *)
(* (HTTP 400) unless a rate limit rejected it first.                       *)
C21_ExactlyOneInput ==
    \A s \in Slots :
        (req[s].pc # "idle" /\ ~ExactlyOne(req[s])) =>
            /\ \A i \in 1..Len(req[s].trace) :
                  req[s].trace[i] \in {"abuse_check", "key_quota_check"}
            /\ req[s].cache_key = None
            /\ req[s].pc = "done" => req[s].resp.status \in {400, 429}

\* the exceptions of a permanent source error and of an internal error
OtherFailures == {"ContentExtractionError", "ValueError", "GeminiAPIError",
                  "GeminiParseError"}

(* C22.  A transient source error of the adapter during a URL request      *)
(* (RateLimitError) is retried a bounded number of times and then          *)
(* answered with a try-again-later outcome of its own: extraction was      *)
(* tried more than once, and the response differs from the response to an  *)
(* internal error and to a permanent source error.                         *)
C22_TransientSourceErrorIsDistinct ==
    \A s \in Slots :
        (req[s].pc = "done" /\ req[s].exc.type = "RateLimitError") =>
            /\ Cardinality({i \in 1..Len(req[s].trace) :
                              req[s].trace[i] = "extract"}) > 1
            /\ req[s].resp.status # 500
            /\ \A q \in Slots :
                  (req[q].pc = "done" /\ req[q].exc.type \in OtherFailures)
                      => req[q].resp.status # req[s].resp.status

----------------------------------------------------------------------------
(* Claims about the abuse detector.                                        *)

\* the distinct inputs the origin of call i submitted before it within
\* the hour that ends at call i
InputsInWindow(i) ==
    {fn_log[j].body : j \in {j \in 1..(i - 1) :
                               /\ fn_log[j].ip = fn_log[i].ip
                               /\ fn_log[j].t > fn_log[i].t - HourTicks}}

(* C23.  The distinct-content counter counts the distinct inputs one       *)
(* origin submitted within the hour: once the origin has submitted more    *)
(* than the limit of distinct inputs within the window, a further request  *)
(* from it with new content is rejected (HTTP 429), and inputs older than  *)
(* the window do not count towards a rejection.                            *)
C23_DistinctContentIsCounted ==
    \A i \in 1..Len(fn_log) :
        /\ (Cardinality(InputsInWindow(i)) > ContentLimit
              /\ fn_log[i].body \notin InputsInWindow(i)) =>
              fn_log[i].status = 429
        /\ fn_log[i].reason = "content" =>
              Cardinality(InputsInWindow(i) \cup {fn_log[i].body})
                  > ContentLimit

\* how often the tick t stands in the origin's log
Logged(log, t) == Cardinality({k \in 1..Len(log) : log[k] = t})

----------------------------------------------------------------------------
(* Claims about the size limits.                                           *)

(* C24.  A request to POST /api/analyze whose body is larger than 1 MB is  *)
(* answered 413 and does not reach the endpoint handler; it is not         *)
(* answered with a validation error.                                       *)
C24_OversizedBodyIs413 ==
    \A i \in 1..Len(fn_log) :
        (fn_log[i].fn = "post_analyze"
            /\ fn_log[i].body.body_size > OneMegabyte) =>
            /\ fn_log[i].status = 413
            /\ ~fn_log[i].endpoint

----------------------------------------------------------------------------
\* The metrics tracker on its own: record_request and check_rate_limit called
\* in any order as the clock moves over hour and day boundaries.  Each call
\* is logged in fn_log with the tracker before and after it.

MaxMetricCalls == 4
MetricsMaxTime == 4
TokenArgs == {0, 1, 2}

MetricsFrame ==
    UNCHANGED <<cache, lastOp, prevOp, built, req, requests, ip_requests,
                pipeVars, life, heap, loop, ip_content_hashes>>

\* metrics.record_request(latency, tokens)
RecordRequest(tokens) ==
    /\ Len(fn_log) < MaxMetricCalls
    /\ metrics' = record_request(metrics, now, tokens)
    /\ fn_log' = Append(fn_log, [fn |-> "record_request", t |-> now,
                                 tokens |-> tokens, ok |-> TRUE,
                                 pre |-> metrics, post |-> metrics'])
    /\ UNCHANGED now
    /\ MetricsFrame

\* metrics.check_rate_limit()
CheckRateLimit ==
    LET r == MetricsTracker_check_rate_limit(metrics, now)
    IN  /\ Len(fn_log) < MaxMetricCalls
        /\ metrics' = r.metrics
        /\ fn_log' = Append(fn_log, [fn |-> "check_rate_limit", t |-> now,
                                     tokens |-> 0, ok |-> r.ok,
                                     pre |-> metrics, post |-> r.metrics])
        /\ UNCHANGED now
        /\ MetricsFrame

MetricsTick ==
    /\ now < MetricsMaxTime
    /\ now' = now + 1
    /\ UNCHANGED <<metrics, fn_log>>
    /\ MetricsFrame

NextMetrics ==
    \/ \E tokens \in TokenArgs : RecordRequest(tokens)
    \/ CheckRateLimit
    \/ MetricsTick

SpecMetrics == InitCache /\ [][NextMetrics]_vars

----------------------------------------------------------------------------
\* Claims about the metrics tracker

\* the record_request calls before call i that fall in the same clock hour,
\* and in the same day, as call i
RecordedInHour(i) ==
    {j \in 1..(i - 1) : /\ fn_log[j].fn = "record_request"
                        /\ HourOf(fn_log[j].t) = HourOf(fn_log[i].t)}
RecordedInDay(i) ==
    {j \in 1..(i - 1) : /\ fn_log[j].fn = "record_request"
                        /\ DayOf(fn_log[j].t) = DayOf(fn_log[i].t)}

RECURSIVE TokensOf(_)
TokensOf(js) ==
    IF js = {} THEN 0
    ELSE LET j == CHOOSE x \in js : TRUE
         IN  fn_log[j].tokens + TokensOf(js \ {j})

\* C25: check_rate_limit answers True exactly when the requests recorded in
\* the current hour are fewer than hourly_request_limit, the requests
\* recorded in the current day are fewer than daily_request_limit and the
\* tokens recorded in the current day are fewer than daily_token_limit; so
\* after hourly_request_limit record_request calls in the current hour it
\* answers False; and the call leaves the totals and the counts of the
\* current hour and day as they were.
C25_CheckRateLimitByCounts ==
    \A i \in 1..Len(fn_log) :
        fn_log[i].fn = "check_rate_limit" =>
            LET e == fn_log[i]
            IN  /\ e.ok <=>
                      /\ Cardinality(RecordedInHour(i)) < HourlyRequestLimit
                      /\ Cardinality(RecordedInDay(i)) < DailyRequestLimit
                      /\ TokensOf(RecordedInDay(i)) < DailyTokenLimit
                /\ Cardinality(RecordedInHour(i)) >= HourlyRequestLimit
                      => ~e.ok
                /\ e.post.total_requests = e.pre.total_requests
                /\ e.post.total_tokens = e.pre.total_tokens
                /\ e.post.total_cache_hits = e.pre.total_cache_hits
                /\ e.post.total_cache_misses = e.pre.total_cache_misses
                /\ Count(e.post.hourly_requests, HourOf(e.t))
                      = Count(e.pre.hourly_requests, HourOf(e.t))
                /\ Count(e.post.daily_requests, DayOf(e.t))
                      = Count(e.pre.daily_requests, DayOf(e.t))
                /\ Count(e.post.daily_tokens, DayOf(e.t))
                      = Count(e.pre.daily_tokens, DayOf(e.t))

\* a check refused in an hour that holds hourly_request_limit recorded
\* requests, after a check allowed in an earlier hour
C25_Witness ==
    \E i, j \in 1..Len(fn_log) :
        /\ i < j
        /\ fn_log[i].fn = "check_rate_limit" /\ fn_log[i].ok
        /\ fn_log[j].fn = "check_rate_limit" /\ ~fn_log[j].ok
        /\ HourOf(fn_log[j].t) > HourOf(fn_log[i].t)
        /\ Cardinality(RecordedInHour(j)) = HourlyRequestLimit

----------------------------------------------------------------------------
(* Claims about concurrent requests.                                       *)

\* the requests whose classifier call started in clock hour h
StartedIn(h) ==
    {s \in Slots : req[s].analyzed > 0 /\ req[s].analyze_hour = h}

\* C26: whatever the interleaving of requests that miss the cache, the
\* classifier calls started in one hourly window are never more than
\* hourly_request_limit.
C26_ClassifierCallsWithinHourlyLimit ==
    \A t \in 0..MaxTime :
        Cardinality(StartedIn(HourOf(t))) <= HourlyRequestLimit

\* two requests that carry the same input
SameKey(a, b) ==
    /\ a # b
    /\ req[a].cache_key # None
    /\ req[a].cache_key = req[b].cache_key

\* request s found an expired entry under its key when it looked up
SawExpired(s) == req[s].saw # None /\ ~req[s].saw[1].live

\* C29 as stated: of two requests with the same cache key, at most one
\* invokes the classifier, unless the entry was cleared or had expired
\* when the later one looked up, or one of the two failed and stored
\* nothing.
C29_OneClassifierCallPerKey ==
    \A a, b \in Slots :
        (SameKey(a, b) /\ req[a].analyzed > 0 /\ req[b].analyzed > 0)
        => \/ req[a].cleared \/ req[b].cleared
           \/ SawExpired(a) \/ SawExpired(b)
           \/ Failed(a) \/ Failed(b)

\* C29: a request that looks the cache up after a request with the same
\* cache key has stored its result, before that entry expires or is
\* cleared, starts no classifier call: of the two, the classifier is
\* invoked by the first alone.  (A request that looks up while the other is
\* still in flight finds nothing and makes a call of its own.)
C29_NoCallAfterStoredResult ==
    \A a, b \in Slots :
        (SameKey(a, b) /\ req[a].wrote /\ req[b].fresh)
        => /\ req[b].analyzed = 0
           /\ req[b].calls = 0
           /\ req[a].analyzed = 1

\* a URL submitted twice: the second request looked up after the first had
\* stored its result and finished without a classifier call
C29_Witness ==
    \E a, b \in Slots :
        /\ SameKey(a, b)
        /\ req[a].url # None
        /\ req[a].wrote /\ req[b].fresh
        /\ Done(b) /\ req[b].analyzed = 0

----------------------------------------------------------------------------
(* The per-key limiter on its own: check_rate_limit is called for several  *)
(* keys in any order as the clock advances.  Each call runs under the      *)
(* limiter's lock, so concurrent calls take effect one after another.      *)
(* fn_log holds every call with its answer and the logs before and after.  *)

MaxLimitCalls == 5
LimitsMaxTime == 4
LimitKeys == {"key-1", "key-2"}

\* the limiter: per hour and per day, with the day limit under what the
\* hour limit lets through in a day
PerHourLimit == 2
PerDayLimit == 3
limiter == [requests_per_hour |-> PerHourLimit,
            requests_per_day |-> PerDayLimit]

InitLimits ==
    /\ now = 0
    /\ cache = [k \in {} |-> None]
    /\ lastOp = NoOp
    /\ prevOp = Brief(NoOp)
    /\ built = NoBuilt
    /\ req = [s \in Slots |-> IdleReq]
    /\ requests = [k \in LimitKeys |-> <<>>]
    /\ ip_requests = [i \in Ips |-> <<>>]
    /\ metrics = InitMetrics
    /\ PipeIdle
    /\ RestIdle

LimitsFrame ==
    UNCHANGED <<cache, lastOp, prevOp, built, req, ip_requests, metrics,
                pipeVars, life, heap, loop, ip_content_hashes>>

\* rate_limiter.check_rate_limit(api_key)
KeyCheck(api_key) ==
    LET c == APIKeyRateLimiter_check(limiter, requests[api_key], now)
    IN  /\ Len(fn_log) < MaxLimitCalls
        /\ requests' = [requests EXCEPT ![api_key] = c.log]
        /\ fn_log' = Append(fn_log,
                            [fn |-> "check_rate_limit", api_key |-> api_key,
                             t |-> now, allowed |-> c.allowed,
                             reason |-> c.reason,
                             pre |-> requests, post |-> requests'])
        /\ UNCHANGED now
        /\ LimitsFrame

LimitsTick ==
    /\ now < LimitsMaxTime
    /\ now' = now + 1
    /\ UNCHANGED <<requests, fn_log>>
    /\ LimitsFrame

NextLimits ==
    \/ \E k \in LimitKeys : KeyCheck(k)
    \/ LimitsTick

SpecLimits == InitLimits /\ [][NextLimits]_vars

----------------------------------------------------------------------------
(* Claims about the per-key limiter.                                       *)

\* the calls among the first n that were answered allowed for key k in
\* the window (t - width, t]
AllowedIn(k, n, t, width) ==
    {i \in 1..n : /\ fn_log[i].api_key = k
                  /\ fn_log[i].allowed
                  /\ fn_log[i].t > t - width
                  /\ fn_log[i].t <= t}

Entries(log) == {log[j] : j \in 1..Len(log)}

\* C27: for every key and every window (t - 1 hour, t] the calls answered
\* allowed are at most requests_per_hour, and for every window
\* (t - 24 hours, t] at most requests_per_day; a call answered not-allowed
\* adds nothing to the key's log; and a call leaves the logs of the other
\* keys alone and is answered from the earlier calls of its own key only.
C27_SlidingWindowsPerKey ==
    /\ \A k \in LimitKeys, t \in 0..LimitsMaxTime :
          /\ Cardinality(AllowedIn(k, Len(fn_log), t, HourTicks))
                <= PerHourLimit
          /\ Cardinality(AllowedIn(k, Len(fn_log), t, DayTicks))
                <= PerDayLimit
    /\ \A i \in 1..Len(fn_log) :
          LET e == fn_log[i]
          IN  /\ ~e.allowed =>
                    /\ Entries(e.post[e.api_key]) \subseteq
                          Entries(e.pre[e.api_key])
                    /\ Len(e.post[e.api_key]) <= Len(e.pre[e.api_key])
              /\ \A k \in LimitKeys \ {e.api_key} : e.post[k] = e.pre[k]
              /\ e.allowed <=>
                    /\ Cardinality(AllowedIn(e.api_key, i - 1, e.t,
                                             HourTicks)) < PerHourLimit
                    /\ Cardinality(AllowedIn(e.api_key, i - 1, e.t,
                                             DayTicks)) < PerDayLimit

\* one key is refused for its day limit with calls of an earlier hour
\* still in its log, and the other key is allowed after that at the same
\* tick
C27_Witness ==
    \E i, j \in 1..Len(fn_log) :
        /\ i < j
        /\ fn_log[i].t = fn_log[j].t
        /\ fn_log[i].api_key # fn_log[j].api_key
        /\ ~fn_log[i].allowed
        /\ fn_log[i].reason = "Daily limit exceeded"
        /\ fn_log[j].allowed

----------------------------------------------------------------------------
(* async_retry: src/backend/src/utils/retry.py.  One call of async_retry   *)
(* is followed from its first attempt to its return or its exception.      *)
(* call holds the coroutine's locals and position, fn_log the outcome of   *)
(* every call of func.  The text of an exception is a sequence of pieces,  *)
(* cut so that every keyword of is_retryable_error that occurs in the text *)
(* occurs as a run of whole pieces.                                        *)

\* the largest max_attempts that is tried
MaxAttempts == 3
\* RetryConfig: initial_delay, exponential_base, and max_delay scaled down
InitialDelay == 1
ExponentialBase == 2
MaxDelay == 3

\* str.lower on the pieces that have capitals
Lower(w) ==
    CASE w = "Connection" -> "connection"
      [] w = "Invalid" -> "invalid"
      [] w = "API" -> "api"
      [] w = "HTTP" -> "http"
      [] OTHER -> w

retryable_keywords ==
    {<<"timeout">>, <<"timed", "out">>, <<"connection">>,
     <<"rate", "limit">>, <<"429">>, <<"503">>, <<"500">>, <<"502">>,
     <<"504">>, <<"temporarily", "unavailable">>}

\* keyword in error_str
Occurs(keyword, str) ==
    \E i \in 1..Len(str) :
        /\ i + Len(keyword) - 1 <= Len(str)
        /\ \A j \in 1..Len(keyword) : str[i + j - 1] = keyword[j]

\* is_retryable_error
is_retryable_error(error) ==
    LET error_str == [i \in 1..Len(error.text) |-> Lower(error.text[i])]
    IN  \E keyword \in retryable_keywords : Occurs(keyword, error_str)

RECURSIVE Pow(_, _)
Pow(b, n) == IF n = 0 THEN 1 ELSE b * Pow(b, n - 1)

\* RetryConfig.calculate_delay without the jitter
calculate_delay(attempt) ==
    LET d == InitialDelay * Pow(ExponentialBase, attempt)
    IN  IF d < MaxDelay THEN d ELSE MaxDelay

\* the except block with no test of is_retryable_error
after_exception_no_test(max_attempts, attempt, e) ==
    IF attempt >= max_attempts - 1 THEN "break" ELSE "sleep"

\* the except block of async_retry: what follows an exception e of
\* attempt number attempt
after_exception(max_attempts, attempt, e) ==
    IF attempt >= max_attempts - 1 THEN "break"
    ELSE IF ~is_retryable_error(e) THEN "raise"
    ELSE "sleep"

\* what a call of func can raise: exceptions with their texts, and
\* CancelledError, which is not an Exception
FuncErrors ==
    {[type |-> "Exception", text |-> <<"Connection", "reset">>],
     [type |-> "Exception", text |-> <<"rate", "limit", "exceeded">>],
     [type |-> "Exception", text |-> <<"HTTP", "1", "500">>],
     [type |-> "Exception", text |-> <<"Invalid", "API", "key">>],
     [type |-> "Exception", text |-> <<"limit", "rate">>],
     [type |-> "CancelledError", text |-> <<>>]}
FuncResults == {"r1", "r2"}

NoError == [type |-> "", text |-> <<>>]

RetryStart(n) ==
    [op |-> "async_retry", max_attempts |-> n, attempt |-> 0,
     last_exception |-> NoError, pc |-> "call", delay |-> 0,
     result |-> "", raised |-> NoError]

InitRetry ==
    /\ now = 0
    /\ cache = [k \in {} |-> None]
    /\ lastOp = NoOp
    /\ prevOp = Brief(NoOp)
    /\ built = NoBuilt
    /\ ApiIdle
    /\ _adapters = <<>>
    /\ reg_log = <<>>
    /\ \E n \in 1..MaxAttempts : call = RetryStart(n)
    /\ cache_dir = [h \in {} |-> 0]
    /\ RestIdle

RetryFrame ==
    UNCHANGED <<now, cache, lastOp, prevOp, built, apiVars, _adapters,
                reg_log, cache_dir, life, heap, loop, ip_content_hashes>>

\* "return await func(*args, **kwargs)" when func returns
FuncReturns(result) ==
    /\ call.pc = "call"
    /\ fn_log' = Append(fn_log, [fn |-> "func", attempt |-> call.attempt,
                                 ok |-> TRUE, result |-> result,
                                 error |-> NoError])
    /\ call' = [call EXCEPT !.pc = "returned", !.result = result]
    /\ RetryFrame

\* "return await func(*args, **kwargs)" when func raises
FuncRaises(e) ==
    LET next == after_exception(call.max_attempts, call.attempt, e)
        jitter == {1, 2}     \* twice the factor 0.5 + random.random()
    IN  /\ call.pc = "call"
        /\ fn_log' = Append(fn_log, [fn |-> "func", attempt |-> call.attempt,
                                     ok |-> FALSE, result |-> "",
                                     error |-> e])
        /\ IF e.type # "Exception"
           THEN call' = [call EXCEPT !.pc = "raised", !.raised = e]
           ELSE IF next = "sleep"
           THEN \E f \in jitter :
                   call' = [call EXCEPT
                              !.last_exception = e,
                              !.delay = calculate_delay(call.attempt) * f,
                              !.pc = "sleep"]
           ELSE \* "raise" in the handler, or "break" and
                \* "raise last_exception"
                call' = [call EXCEPT !.last_exception = e,
                                     !.pc = "raised", !.raised = e]
        /\ RetryFrame

\* "await asyncio.sleep(delay)" returns and the loop goes round
SleepReturns ==
    /\ call.pc = "sleep"
    /\ call' = [call EXCEPT !.attempt = @ + 1, !.pc = "call"]
    /\ UNCHANGED fn_log
    /\ RetryFrame

\* the task is cancelled in "await asyncio.sleep(delay)"
SleepCancelled ==
    /\ call.pc = "sleep"
    /\ call' = [call EXCEPT !.pc = "raised",
                            !.raised = [type |-> "CancelledError",
                                        text |-> <<>>]]
    /\ UNCHANGED fn_log
    /\ RetryFrame

NextRetry ==
    \/ \E r \in FuncResults : FuncReturns(r)
    \/ \E e \in FuncErrors : FuncRaises(e)
    \/ SleepReturns
    \/ SleepCancelled

\* every call of func and every sleep comes to an end
SpecRetry == InitRetry /\ [][NextRetry]_vars /\ WF_vars(NextRetry)

----------------------------------------------------------------------------
(* Claims about async_retry.                                               *)

RetryOver == call.pc \in {"returned", "raised"}

\* what holds of the calls of func made so far
RetrySafe ==
    LET n == call.max_attempts
        made == Len(fn_log)
    IN  /\ made <= n
        /\ made = n => RetryOver
        \* every call but the latest raised an error that is retryable
        /\ \A i \in 1..(made - 1) :
              /\ ~fn_log[i].ok
              /\ fn_log[i].error.type = "Exception"
              /\ is_retryable_error(fn_log[i].error)
        /\ call.pc = "returned" =>
              /\ made >= 1
              /\ fn_log[made].ok
              /\ call.result = fn_log[made].result
        /\ (made >= 1 /\ fn_log[made].ok) => call.pc = "returned"
        \* an error that is not retryable ends the call at once
        /\ (made >= 1 /\ ~fn_log[made].ok
                /\ ~is_retryable_error(fn_log[made].error)) =>
              /\ call.pc = "raised"
              /\ call.raised = fn_log[made].error
        \* n failures: the last exception is raised
        /\ (made = n /\ ~fn_log[made].ok) =>
              /\ call.pc = "raised"
              /\ call.raised = fn_log[made].error

\* C30: async_retry with max_attempts = n >= 1 comes to an end and calls
\* func at most n times; it returns the result of the first call that
\* succeeds; an error that is_retryable_error does not class as retryable,
\* raised before the last attempt, is raised again at once with no further
\* call; and when all n attempts fail the exception of the last is raised.
C30_BoundedRetry == []RetrySafe /\ <>RetryOver

\* three attempts were allowed and made: two retryable errors, then an
\* error that was raised
C30_Witness ==
    /\ call.max_attempts = 3
    /\ Len(fn_log) = 3
    /\ call.pc = "raised"
    /\ call.raised = fn_log[3].error
    /\ is_retryable_error(fn_log[3].error)

============================================================================
